---- MODULE Spec2Model ----
(***************************************************************************)
(* ormdantic: the storage facade (ormdantic/database/storage.py) on top of *)
(* the relational layout of typed, nested documents.                       *)
(*                                                                         *)
(* Two specifications:                                                     *)
(*   Spec       the storage operations (upsert_objects, delete_objects,    *)
(*              find_object, find_objects) on a database of one container  *)
(*              hierarchy ContainerModel > PartModel > SubPartModel        *)
(*              (tests/db/test_storage.py), PartModel also carrying an     *)
(*              array-indexed field `codes` (tests/db/test_queries.py);    *)
(*   SpecOrder  the creation order of create_table over every part-of      *)
(*              forest of the type universe, and the tables and views it   *)
(*              creates;                                                   *)
(*   SpecAssign assign_identifying_fields_if_empty (ormdantic/schema/      *)
(*              base.py) on documents whose parts carry identifying fields;*)
(*   SpecStream the generator query_records / find_objects and the cursor  *)
(*              it holds;                                                  *)
(*   SpecPaths  get_stored_fields on one stored-field definition.          *)
(***************************************************************************)
EXTENDS Integers, Sequences, FiniteSets, TLC

VARIABLES
    container_of,   \* the schema: type -> its container type (or NoType)
    db,             \* the committed tables of the backend
    auto_increment, \* per table: the last AUTO_INCREMENT row id handed out
    uuid,           \* how many uuid4() values were drawn
    ops,            \* how many write operations have run
    last,           \* the last operation: its input and what the caller got
    types,          \* create_table: the tuple of types passed in
    to_be_created,  \* create_table: the deque of _iterate_types_for_creating_order
    created,        \* create_table: the types yielded so far, in order
    pc,             \* create_table: "idle" | "iterating" | "done" | "raised"
    schema,         \* create_table: the tables and views of the database
    calls,          \* create_table: how many times it was called
    heap,           \* assign: the objects, by address
    call,           \* assign: the call and what it returned
    stream,         \* streaming read: the generator and its cursor
    build           \* get_stored_fields: the definition and the outcome

vars == <<container_of, db, auto_increment, uuid, ops, last,
          types, to_be_created, created, pc, schema, calls,
          heap, call, stream, build>>

storeVars == <<db, auto_increment, uuid, ops, last>>
orderVars == <<types, to_be_created, created, pc, schema, calls>>
otherVars == <<heap, call, stream, build>>

-----------------------------------------------------------------------------
(* Bounds of the model.                                                    *)

MaxParts == 2       \* parts of one container
MaxSubs == 1        \* sub parts of one part
MaxCodes == 1       \* elements of one `codes` array
MaxNodes == 3       \* parts + sub parts + codes of one document
MaxBatch == 2       \* models of one batch
MaxOps == 2         \* write operations of one behaviour
MaxFetch == 2       \* fetch_size of a streaming read
MaxInput == 3       \* types passed to one create_table
MaxCalls == 2       \* calls of create_table with the same types
MaxItems == 2       \* members of a list or tuple of identified parts
MaxNested == 1      \* members of the tuple of an identified part
MaxRows == 3        \* rows a streaming read selects
MaxPath == 3        \* segments of the extraction paths of a stored field
MaxBases == 2       \* base classes one class statement lists
MaxDepth == 3       \* segments of one namespace
MaxRequested == 2   \* namespaces one read requests

Names == {"a", "b"}
PartNames == {"p"}
SubNames == {"s"}
Codes == {"x"}

-----------------------------------------------------------------------------
(* Helpers on sequences.                                                   *)

SeqUpTo(S, n) == UNION {[1..k -> S] : k \in 0..n}

RECURSIVE Flatten(_)
Flatten(ss) == IF ss = <<>> THEN <<>> ELSE Head(ss) \o Flatten(Tail(ss))


Range(s) == {s[i] : i \in 1..Len(s)}

Min(a, b) == IF a < b THEN a ELSE b

-----------------------------------------------------------------------------
(* The schema.                                                             *)

NoType == "None"
ContainerModel == "ContainerModel"
PartModel == "PartModel"
SubPartModel == "SubPartModel"
OtherModel == "OtherModel"

\* the declaration order of the types (and so of the part fields of a type)
TypeOrder == <<ContainerModel, PartModel, SubPartModel, OtherModel>>
Types == Range(TypeOrder)

\* tests/db/test_storage.py: PartModel is PartOfMixin[ContainerModel],
\* SubPartModel is PartOfMixin[PartModel]
StorageSchema ==
    [t \in Types |-> CASE t = PartModel -> ContainerModel
                       [] t = SubPartModel -> PartModel
                       [] OTHER -> NoType]

get_container_type(type_) == container_of[type_]

get_part_types(type_) ==
    SelectSeq(TypeOrder, LAMBDA t : container_of[t] = type_)

\* isinstance(model, PartOfMixin)
IsPartOfMixin(model) == container_of[model.type] # NoType

-----------------------------------------------------------------------------
(* Documents.  A model object is a record: `type` is its class, `_row_id`  *)
(* the private attribute PersistentModel._row_id, the rest its fields.     *)
(* An IdStr is a string: EmptyId is '', a caller's id is "@", and the n-th  *)
(* uuid4().hex drawn is the string of n, never drawn before.               *)

EmptyId == ""
UserIds == {"@"}
uuid4(n) == ToString(n)

SubPartModels == [type : {SubPartModel}, _row_id : {0}, name : SubNames]

PartModels ==
    [type : {PartModel}, _row_id : {0}, name : PartNames,
     codes : SeqUpTo(Codes, MaxCodes),
     parts : SeqUpTo(SubPartModels, MaxSubs)]

RECURSIVE SumSeq(_)
SumSeq(s) == IF s = <<>> THEN 0 ELSE Head(s) + SumSeq(Tail(s))

\* parts + sub parts + codes of a document
Nodes(model) ==
    SumSeq([i \in 1..Len(model.parts) |->
                1 + Len(model.parts[i].codes) + Len(model.parts[i].parts)])

ContainerModels ==
    {m \in [type : {ContainerModel}, _row_id : {0}, id : {EmptyId} \cup UserIds,
            name : Names, parts : SeqUpTo(PartModels, MaxParts)] :
        Nodes(m) <= MaxNodes}

\* a part without sub parts
PlainPart(codes) ==
    [type |-> PartModel, _row_id |-> 0, name |-> "p", codes |-> codes,
     parts |-> <<>>]

\* the models a batch is made of: a new container, a container with the
\* caller's id, and a part
BatchModels ==
    {[type |-> ContainerModel, _row_id |-> 0, id |-> EmptyId, name |-> "a",
      parts |-> <<PlainPart(<<>>), PlainPart(<<"x">>)>>],
     [type |-> ContainerModel, _row_id |-> 0, id |-> "@", name |-> "b",
      parts |-> <<PlainPart(<<>>)>>],
     PlainPart(<<>>)}

\* pydantic BaseModel.__eq__ compares the fields, not the private attributes
RECURSIVE Fields(_)
Fields(model) ==
    CASE model.type = ContainerModel ->
            [type |-> model.type, id |-> model.id, name |-> model.name,
             parts |-> [i \in 1..Len(model.parts) |-> Fields(model.parts[i])]]
      [] model.type = PartModel ->
            [type |-> model.type, name |-> model.name, codes |-> model.codes,
             parts |-> [i \in 1..Len(model.parts) |-> Fields(model.parts[i])]]
      [] OTHER -> [type |-> model.type, name |-> model.name]

ModelEq(m1, m2) == Fields(m1) = Fields(m2)

\* the fields of every model of a sequence
FieldsOfAll(s) == [i \in 1..Len(s) |-> Fields(s[i])]

-----------------------------------------------------------------------------
(* The JSON codec: model.json() and type_.parse_raw().  A JSON object has  *)
(* the fields of the model and nothing else: neither the class nor the     *)
(* private row id is in the payload.                                       *)

RECURSIVE json(_)
json(model) ==
    CASE model.type = ContainerModel ->
            [id |-> model.id, name |-> model.name,
             parts |-> [i \in 1..Len(model.parts) |-> json(model.parts[i])]]
      [] model.type = PartModel ->
            [name |-> model.name, codes |-> model.codes,
             parts |-> [i \in 1..Len(model.parts) |-> json(model.parts[i])]]
      [] OTHER -> [name |-> model.name]

RECURSIVE parse_raw(_, _)
parse_raw(type_, j) ==
    CASE type_ = ContainerModel ->
            [type |-> type_, _row_id |-> 0, id |-> j.id, name |-> j.name,
             parts |-> [i \in 1..Len(j.parts) |-> parse_raw(PartModel, j.parts[i])]]
      [] type_ = PartModel ->
            [type |-> type_, _row_id |-> 0, name |-> j.name, codes |-> j.codes,
             parts |-> [i \in 1..Len(j.parts) |-> parse_raw(SubPartModel, j.parts[i])]]
      [] OTHER -> [type |-> type_, _row_id |-> 0, name |-> j.name]

\* SQL NULL, and the JSON value of a path that addresses nothing
Null == [null |-> TRUE]

\* a json path of a part row: '$.parts[i]' is <<"parts", i>>, i counted from 0
\* JSON_EXTRACT(doc, path)
JSON_EXTRACT(doc, path) ==
    IF doc = Null \/ path[2] + 1 > Len(doc[path[1]])
    THEN Null
    ELSE doc[path[1]][path[2] + 1]

-----------------------------------------------------------------------------
(* The layout: tables, stored fields and the rows of a type.               *)

\* the first segment of a path that ascends to the container
Ascend == <<"..">>

get_table_name(type_, suffix) ==
    "md_" \o type_ \o (IF suffix = "" THEN "" ELSE "_" \o suffix)

\* field -> extraction path; a segment is <<"$", name>>, <<"$", name, "*">>,
\* <<"$">> or <<"..">>
get_stored_fields(type_) ==
    CASE type_ = ContainerModel ->
            [id |-> << <<"$", "id">> >>, name |-> << <<"$", "name">> >>]
      [] type_ = PartModel ->
            [name |-> << <<"$", "name">> >>,
             codes |-> << <<"$", "codes", "*">>, <<"$">> >>,
             _container_name |-> << Ascend, <<"$", "name">> >>]
      [] type_ = SubPartModel -> [name |-> << <<"$", "name">> >>]
      [] OTHER -> << >>

\* the fields of a type that are an ArrayIndexMixin, in declaration order
ArrayIndexFields(type_) == IF type_ = PartModel THEN <<"codes">> ELSE <<>>

\* the fields of a type that are an IdentifyingMixin
IdentifyingFields(type_) == IF type_ = ContainerModel THEN <<"id">> ELSE <<>>

\* the field of the container that holds the parts of type part_type
PartField(type_, part_type) == "parts"

IsRoot(type_) == container_of[type_] = NoType

\* the base table of a type: its primary table, or the base table of its view
BaseTable(type_) ==
    IF IsRoot(type_) THEN get_table_name(type_, "")
    ELSE get_table_name(type_, "pbase")

Tables ==
    {BaseTable(t) : t \in {ContainerModel, PartModel, SubPartModel}}
    \cup {get_table_name(t, f) :
            t \in {PartModel}, f \in Range(ArrayIndexFields(PartModel))}

\* the value of a stored column: extracted from the row's own JSON, or from
\* the container's JSON when the path ascends
StoredValue(paths, own, container) ==
    IF paths[1] = Ascend THEN container[paths[2][2]] ELSE own[paths[1][2]]

StoredColumns(type_, own, container) ==
    LET defs == get_stored_fields(type_)
    IN  [f \in DOMAIN defs |-> StoredValue(defs[f], own, container)]

Extend(row, field, value) ==
    [f \in DOMAIN row \cup {field} |-> IF f = field THEN value ELSE row[f]]

\* the rows a query on type_ reads: the primary table of a root type, the
\* view of a part type (its base table joined to the rows of its container,
\* the payload extracted from the container's payload at __json_path)
\* base JOIN cont ON cont.__row_id = base.__container_row_id, selecting
\* JSON_EXTRACT(cont.__json, base.__json_path) AS __json and the base columns
JoinOne(r, cs) ==
    [i \in 1..Len(cs) |->
        Extend(r, "__json", JSON_EXTRACT(cs[i].__json, r.__json_path))]

Join(base, cont) ==
    Flatten([i \in 1..Len(base) |->
        JoinOne(base[i],
                SelectSeq(cont,
                    LAMBDA c : c.__row_id = base[i].__container_row_id))])

RECURSIVE Relation(_, _)
Relation(tables, type_) ==
    IF IsRoot(type_) THEN tables[BaseTable(type_)]
    ELSE Join(tables[BaseTable(type_)], Relation(tables, container_of[type_]))

-----------------------------------------------------------------------------
(* The statements of an upsert and what the backend does with each.        *)
(* An execution context is a record: the tables it sees, the counters, how *)
(* many statements it has executed, whether a statement raised, and the    *)
(* last inserted row id.                                                   *)

\* DELETE + INSERT of every array side table of type_
get_sql_for_upserting_external_index_table(type_) ==
    Flatten([i \in 1..Len(ArrayIndexFields(type_)) |->
        << [sql |-> "DELETE_EXT", type_ |-> type_,
            field |-> ArrayIndexFields(type_)[i], from |-> NoType],
           [sql |-> "INSERT_EXT", type_ |-> type_,
            field |-> ArrayIndexFields(type_)[i], from |-> NoType] >>])

\* the INSERT of a part table placed before its DELETE
get_sql_for_upserting_parts_table_insert_first(type_, part_type) ==
    << [sql |-> "INSERT_PART", type_ |-> part_type,
        field |-> PartField(type_, part_type), from |-> type_],
       [sql |-> "DELETE_PART", type_ |-> part_type,
        field |-> PartField(type_, part_type), from |-> type_] >>

\* part type -> DELETE + INSERT of its base table, selecting from type_
get_sql_for_upserting_parts_table(type_, part_type) ==
    << [sql |-> "DELETE_PART", type_ |-> part_type,
        field |-> PartField(type_, part_type), from |-> type_],
       [sql |-> "INSERT_PART", type_ |-> part_type,
        field |-> PartField(type_, part_type), from |-> type_] >>

\* the row id of the root document a row of type_ belongs to
RootRowId(type_, row) ==
    IF IsRoot(type_) THEN row.__row_id ELSE row.__root_row_id

\* the rows of type_ that belong to the root document root_row_id
RowsOfRoot(tables, type_, root_row_id) ==
    SelectSeq(Relation(tables, type_),
              LAMBDA r : RootRowId(type_, r) = root_row_id)

\* an INSERT ... SELECT that stores the ordinal of the member, counted
\* from 1, as the index of its json path
PartRowsOfOrdinalPath(c, stmt) ==
    IF c.__json = Null THEN <<>>
    ELSE [k \in 1..Len(c.__json[stmt.field]) |->
            [__root_row_id |-> RootRowId(stmt.from, c),
             __container_row_id |-> c.__row_id,
             __json_path |-> <<stmt.field, k>>]
            @@ StoredColumns(stmt.type_, c.__json[stmt.field][k], c.__json)]

\* an INSERT ... SELECT that takes the row id of the selected container row
\* for both references
PartRowsOfContainerOnly(c, stmt) ==
    IF c.__json = Null THEN <<>>
    ELSE [k \in 1..Len(c.__json[stmt.field]) |->
            [__root_row_id |-> c.__row_id,
             __container_row_id |-> c.__row_id,
             __json_path |-> <<stmt.field, k - 1>>]
            @@ StoredColumns(stmt.type_, c.__json[stmt.field][k], c.__json)]

\* INSERT ... SELECT of a part base table: one row per element of the part
\* field of every container row of the root, the ordinal counted from 1 and
\* the json path from 0
PartRowsOf(c, stmt) ==
    IF c.__json = Null THEN <<>>
    ELSE [k \in 1..Len(c.__json[stmt.field]) |->
            [__root_row_id |-> RootRowId(stmt.from, c),
             __container_row_id |-> c.__row_id,
             __json_path |-> <<stmt.field, k - 1>>]
            @@ StoredColumns(stmt.type_, c.__json[stmt.field][k], c.__json)]

\* AUTO_INCREMENT: the rows get the row ids after first_id, in order
WithRowIds(rows, first_id) ==
    [i \in 1..Len(rows) |-> Extend(rows[i], "__row_id", first_id + i)]

SelectParts(cs, stmt) == Flatten([i \in 1..Len(cs) |-> PartRowsOf(cs[i], stmt)])

PartRows(tables, stmt, root_row_id, first_id) ==
    WithRowIds(SelectParts(RowsOfRoot(tables, stmt.from, root_row_id), stmt),
               first_id)

\* INSERT ... SELECT of an array side table: one row per element of the
\* array of every row of the type that belongs to the root
ExternalRowsOf(o, stmt) ==
    IF o.__json = Null THEN <<>>
    ELSE [k \in 1..Len(o.__json[stmt.field]) |->
            Extend([__root_row_id |-> RootRowId(stmt.type_, o),
                    __row_id |-> o.__row_id],
                   stmt.field, o.__json[stmt.field][k])]

SelectElements(os, stmt) ==
    Flatten([i \in 1..Len(os) |-> ExternalRowsOf(os[i], stmt)])

ExternalRows(tables, stmt, root_row_id) ==
    SelectElements(RowsOfRoot(tables, stmt.type_, root_row_id), stmt)

NotOfRoot(rows, root_row_id) ==
    SelectSeq(rows, LAMBDA r : r.__root_row_id # root_row_id)

\* cursor.execute(sql, {'__root_row_id': root_row_id}) on the tables
Inserted(cx, table, rows) ==
    [cx EXCEPT !.tables[table] = @ \o rows,
               !.auto_increment[table] = @ + Len(rows)]

Apply(cx, stmt, root_row_id) ==
    CASE stmt.sql = "DELETE_PART" ->
            [cx EXCEPT !.tables[get_table_name(stmt.type_, "pbase")] =
                            NotOfRoot(@, root_row_id)]
      [] stmt.sql = "INSERT_PART" ->
            Inserted(cx, get_table_name(stmt.type_, "pbase"),
                     PartRows(cx.tables, stmt, root_row_id,
                        cx.auto_increment[get_table_name(stmt.type_, "pbase")]))
      [] stmt.sql = "DELETE_EXT" ->
            [cx EXCEPT !.tables[get_table_name(stmt.type_, stmt.field)] =
                            NotOfRoot(@, root_row_id)]
      [] stmt.sql = "INSERT_EXT" ->
            [cx EXCEPT !.tables[get_table_name(stmt.type_, stmt.field)] =
                            @ \o ExternalRows(cx.tables, stmt, root_row_id)]

\* the primary upsert: INSERT, or UPDATE of the row with the same
\* identifying key; the row id of the written row is the last id
PrimaryRow(model, doc, row_id) ==
    [__row_id |-> row_id, __json |-> doc]
    @@ Extend(StoredColumns(model.type, doc, Null), "id", model.id)

UpsertRow(cx, table, model, hit) ==
    IF hit # {}
    THEN [cx EXCEPT
            !.tables[table][CHOOSE i \in hit : TRUE] =
                PrimaryRow(model, json(model), @.__row_id),
            !.last_id = cx.tables[table][CHOOSE i \in hit : TRUE].__row_id]
    ELSE [cx EXCEPT
            !.tables[table] =
                Append(@, PrimaryRow(model, json(model),
                                     cx.auto_increment[table] + 1)),
            !.auto_increment[table] = @ + 1,
            !.last_id = cx.auto_increment[table] + 1]

ApplyUpsert(cx, model) ==
    UpsertRow(cx, get_table_name(model.type, ""), model,
              {i \in 1..Len(cx.tables[get_table_name(model.type, "")]) :
                 cx.tables[get_table_name(model.type, "")][i].id = model.id})

\* one cursor.execute: the fail_at-th statement of the context raises and
\* has no effect; after it nothing more is executed
\* (after is the context the statement leaves when it does not raise)
Run(cx, after, fail_at) ==
    IF cx.failed THEN cx
    ELSE IF cx.executed + 1 = fail_at
         THEN [cx EXCEPT !.failed = TRUE, !.executed = @ + 1]
         ELSE [after EXCEPT !.executed = @ + 1]

execute(cx, stmt, root_row_id, fail_at) ==
    Run(cx, [Apply(cx, stmt, root_row_id) EXCEPT !.log = Append(@, stmt)],
        fail_at)

\* the primary upsert of a part type addresses its view, which no row can be
\* inserted into: the backend raises
execute_and_get_last_id(cx, model, fail_at) ==
    Run(cx, [ApplyUpsert(cx, model) EXCEPT !.log =
                Append(@, [sql |-> "UPSERT", type_ |-> model.type,
                           field |-> "", from |-> NoType])],
        IF IsRoot(model.type) THEN fail_at ELSE cx.executed + 1)

RECURSIVE execute_all(_, _, _, _)
execute_all(cx, sqls, root_row_id, fail_at) ==
    IF sqls = <<>> THEN cx
    ELSE execute_all(execute(cx, Head(sqls), root_row_id, fail_at),
                     Tail(sqls), root_row_id, fail_at)

-----------------------------------------------------------------------------
(* The execution backend: pool.open_cursor(write).                         *)

\* the context of `with pool.open_cursor(write) as cursor`
open_cursor(tables, counters, write) ==
    [tables |-> tables, auto_increment |-> counters, write |-> write,
     executed |-> 0, failed |-> FALSE, last_id |-> 0, log |-> <<>>]

\* the tables after the `with` block is left: a write context is one
\* transaction, committed at a normal exit and rolled back when a statement
\* raised; outside a transaction every statement is final as it executes
close_cursor(cx, tables) ==
    IF cx.write /\ cx.failed THEN tables ELSE cx.tables

-----------------------------------------------------------------------------
(* ormdantic/schema/base.py: identifying fields.                           *)

\* an IdStr that takes a new uuid whether it is empty or not
new_if_empty_always(self, n) == uuid4(n + 1)

\* IdStr.new_if_empty: n uuids were drawn before
new_if_empty(self, n) == IF self = EmptyId THEN uuid4(n + 1) ELSE self

\* the identifying fields of a model, as (name, value) pairs
get_identifer_of(model) ==
    [i \in 1..Len(IdentifyingFields(model.type)) |->
        <<IdentifyingFields(model.type)[i],
          model[IdentifyingFields(model.type)[i]]>>]

\* _replace_scalar_value_if_empty_value: `new_value is not obj` for some
\* identifying field
NeedsAssignment(model) ==
    \E i \in 1..Len(get_identifer_of(model)) :
        new_if_empty(get_identifer_of(model)[i][2], 0)
            # get_identifer_of(model)[i][2]

\* a copy of the model with every empty identifying field assigned, the
\* model itself when none is empty (no part type here has an identifying
\* field, so the parts are never replaced)
assign_identifying_fields_if_empty(model, n) ==
    IF ~NeedsAssignment(model) THEN model
    ELSE [f \in DOMAIN model |->
            IF \E i \in 1..Len(IdentifyingFields(model.type)) :
                    IdentifyingFields(model.type)[i] = f
            THEN new_if_empty(model[f], n)
            ELSE model[f]]

-----------------------------------------------------------------------------
(* ormdantic/database/storage.py                                           *)

\* a filter that compares every item with != instead of =
build_where_unequal(items) ==
    [i \in 1..Len(items) |-> <<items[i][1], "!=", items[i][2]>>]

build_where(items) == [i \in 1..Len(items) |-> <<items[i][1], "=", items[i][2]>>]

\* a cursor opened without the write flag
UpsertReadMode == FALSE

\* the write flag upsert_objects opens its cursor with
UpsertWriteMode == TRUE

RECURSIVE _upsert_parts_and_externals(_, _, _, _)
RECURSIVE UpsertPartTypes(_, _, _, _, _)

\* the loop over get_sql_for_upserting_parts_table(type_).items()
UpsertPartTypes(cx, root_inserted_id, type_, part_types, fail_at) ==
    IF part_types = <<>> THEN cx
    ELSE UpsertPartTypes(
            _upsert_parts_and_externals(
                execute_all(cx,
                    get_sql_for_upserting_parts_table(type_, Head(part_types)),
                    root_inserted_id, fail_at),
                root_inserted_id, Head(part_types), fail_at),
            root_inserted_id, type_, Tail(part_types), fail_at)

\* a cascade that leaves the array side tables of type_ alone
_upsert_parts_only(cx, root_inserted_id, type_, fail_at) ==
    UpsertPartTypes(cx, root_inserted_id, type_, get_part_types(type_), fail_at)

_upsert_parts_and_externals(cx, root_inserted_id, type_, fail_at) ==
    UpsertPartTypes(
        execute_all(cx, get_sql_for_upserting_external_index_table(type_),
                    root_inserted_id, fail_at),
        root_inserted_id, type_, get_part_types(type_), fail_at)

\* the loop `for model in targets` inside the cursor of upsert_objects
RECURSIVE UpsertTargets(_, _, _)
\* inserted is the context after the primary upsert of the model
UpsertCascade(inserted, model, fail_at) ==
    _upsert_parts_and_externals(inserted, inserted.last_id, model.type, fail_at)

UpsertTargets(cx, targets, fail_at) ==
    IF targets = <<>> THEN cx
    ELSE UpsertTargets(
            UpsertCascade(execute_and_get_last_id(cx, Head(targets), fail_at),
                          Head(targets), fail_at),
            Tail(targets), fail_at)

\* a check that looks at the first model of the input only
MixinsOfFirst(model_list) ==
    SelectSeq(SubSeq(model_list, 1, Min(1, Len(model_list))), IsPartOfMixin)

\* the models of the input that are a PartOfMixin
Mixins(model_list) == SelectSeq(model_list, IsPartOfMixin)

\* what is left of model_list after the filter has gone through it: a list
\* or tuple can be iterated again, a one-shot iterator is exhausted
AfterFilter(models) == IF models.kind = "iter" THEN <<>> ELSE models.items

\* models is [kind, items]: kind "single" for one PersistentModel, "list"
\* for a list or tuple, "iter" for a one-shot iterator
\* targets = tuple(assign_identifying_fields_if_empty(m) for m in model_list)
Targets(model_list, n) ==
    [i \in 1..Len(model_list) |->
        assign_identifying_fields_if_empty(model_list[i],
            n + Cardinality({j \in 1..(i - 1) : NeedsAssignment(model_list[j])}))]

\* what upsert_objects leaves and returns once the cursor is closed
Upserted(cx, tables, n, targets) ==
    [outcome |-> IF cx.failed THEN "BackendError" ELSE "ok",
     tables |-> close_cursor(cx, tables),
     auto_increment |-> cx.auto_increment,
     uuid |-> n,
     executed |-> cx.executed,
     opened |-> 1,
     result |-> IF cx.failed THEN <<>> ELSE targets,
     log |-> cx.log]

\* how many uuids assigning the identifying fields of model_list draws
Drawn(model_list) ==
    Cardinality({j \in 1..Len(model_list) : NeedsAssignment(model_list[j])})

UpsertAll(tables, counters, n, targets, fail_at) ==
    Upserted(UpsertTargets(open_cursor(tables, counters, UpsertWriteMode),
                           targets, fail_at),
             tables, n, targets)

upsert_objects(tables, counters, n, models, fail_at) ==
    IF Mixins(models.items) # <<>>
    THEN [outcome |-> "RuntimeError", tables |-> tables,
          auto_increment |-> counters, uuid |-> n, executed |-> 0,
          opened |-> 0, result |-> <<>>, log |-> <<>>]
    ELSE UpsertAll(tables, counters, n + Drawn(AfterFilter(models)),
                   Targets(AfterFilter(models), n), fail_at)

\* a row satisfies every (field, operator, value) of the filter
Satisfies(row, where) ==
    \A i \in 1..Len(where) :
        IF where[i][2] = "=" THEN row[where[i][1]] = where[i][3]
        ELSE row[where[i][1]] # where[i][3]

\* cursor.execute of get_query_and_args_for_reading(type_, fields, where):
\* the rows of the type that satisfy the filter, in backend order
Selected(tables, type_, where) ==
    SelectSeq(Relation(tables, type_), LAMBDA r : Satisfies(r, where))

\* cursor.fetchmany(fetch_size) on the rows not fetched yet
fetchmany(rows, fetch_size) == SubSeq(rows, 1, Min(fetch_size, Len(rows)))

\* while results := cursor.fetchmany(fetch_size): yield from results
RECURSIVE FetchLoop(_, _)
FetchLoop(rows, fetch_size) ==
    IF fetchmany(rows, fetch_size) = <<>> THEN <<>>
    ELSE fetchmany(rows, fetch_size)
         \o FetchLoop(SubSeq(rows, Len(fetchmany(rows, fetch_size)) + 1,
                             Len(rows)),
                      fetch_size)

\* a read that stops after the first fetchmany
query_records_first_batch(tables, type_, where, fetch_size) ==
    fetchmany(Selected(tables, type_, where), fetch_size)

query_records(tables, type_, where, fetch_size) ==
    FetchLoop(Selected(tables, type_, where), fetch_size)

convert_dict_to_model(type_, record) ==
    [parse_raw(type_, record.__json) EXCEPT !._row_id = record.__row_id]

\* the batch size find_object reads with
FindFetchSize == 2

\* find_object once objs = list(query_records(pool, type_, where, 2))
FoundObject(type_, objs) ==
    IF Len(objs) = 2
    THEN [outcome |-> "RuntimeError", result |-> <<>>]
    ELSE IF Len(objs) = 1
         THEN [outcome |-> "found",
               result |-> <<convert_dict_to_model(type_, objs[1])>>]
         ELSE [outcome |-> "None", result |-> <<>>]

find_object(tables, type_, where) ==
    FoundObject(type_, query_records(tables, type_, where, FindFetchSize))

ConvertAll(type_, records) ==
    [i \in 1..Len(records) |-> convert_dict_to_model(type_, records[i])]

find_objects(tables, type_, where, fetch_size) ==
    ConvertAll(type_, query_records(tables, type_, where, fetch_size))

\* a delete that removes nothing
delete_objects_nothing(tables, type_, where) == tables

\* a delete that also removes the part and side rows of the deleted roots
delete_objects_cascading(tables, type_, where) ==
    [t \in DOMAIN tables |->
        IF t = get_table_name(type_, "")
        THEN SelectSeq(tables[t], LAMBDA r : ~Satisfies(r, where))
        ELSE SelectSeq(tables[t], LAMBDA r :
                \A i \in 1..Len(tables[get_table_name(type_, "")]) :
                    Satisfies(tables[get_table_name(type_, "")][i], where)
                        => tables[get_table_name(type_, "")][i].__row_id
                                # r.__root_row_id)]

\* one filtered DELETE on the primary table of type_
delete_objects(tables, type_, where) ==
    [tables EXCEPT ![get_table_name(type_, "")] =
        SelectSeq(@, LAMBDA r : ~Satisfies(r, where))]

-----------------------------------------------------------------------------
(* The storage specification: the operations of the facade on a database   *)
(* whose tables were created for ContainerModel.                           *)

StoredTypes == {ContainerModel, PartModel, SubPartModel}

UpsertInputs ==
    {[kind |-> "single", items |-> <<m>>] :
        m \in ContainerModels \cup (BatchModels \cap PartModels)}
    \cup {[kind |-> k, items |-> s] :
            k \in {"list", "iter"}, s \in SeqUpTo(BatchModels, MaxBatch)}

\* the filters of the reads and deletes: none, or one field compared with
\* a value it can have
Wheres(type_) ==
    {<<>>}
    \cup {<< <<"name", "=", v>> >> :
            v \in CASE type_ = ContainerModel -> Names
                     [] type_ = PartModel -> PartNames
                     [] OTHER -> SubNames}
    \cup {<< <<"id", "=", v>> >> :
            v \in IF type_ = ContainerModel THEN UserIds ELSE {}}
    \cup {<< <<"_container_name", "=", v>> >> :
            v \in IF type_ = PartModel THEN {"a"} ELSE {}}

\* the statements one upsert of a model of type_ executes
RECURSIVE CascadeCount(_)
CascadeCount(type_) ==
    Len(get_sql_for_upserting_external_index_table(type_))
    + SumSeq([i \in 1..Len(get_part_types(type_)) |->
                Len(get_sql_for_upserting_parts_table(type_, get_part_types(type_)[i]))
                + CascadeCount(get_part_types(type_)[i])])

\* the statements upsert_objects executes on models when none raises
StatementCount(models) ==
    IF Mixins(models.items) # <<>> THEN 0
    ELSE SumSeq([i \in 1..Len(AfterFilter(models)) |->
                    1 + CascadeCount(AfterFilter(models)[i].type)])

NoOp ==
    [op |-> "none", outcome |-> "", kind |-> "", input |-> <<>>,
     size |-> 0, mixins |-> 0, result |-> <<>>, executed |-> 0, opened |-> 0,
     type_ |-> NoType, where |-> <<>>, fetch_size |-> 0, n |-> 0,
     repeat |-> FALSE, log |-> <<>>]

\* the caller of upsert_objects gets r
UpsertReturns(models, r) ==
    /\ db' = r.tables
    /\ auto_increment' = r.auto_increment
    /\ uuid' = r.uuid
    /\ last' = [NoOp EXCEPT
                 !.op = "upsert_objects",
                 !.outcome = r.outcome,
                 !.kind = models.kind,
                 !.input = IF r.outcome = "ok" THEN models.items ELSE <<>>,
                 !.size = Len(models.items),
                 !.mixins = Cardinality({i \in 1..Len(models.items) :
                                            IsPartOfMixin(models.items[i])}),
                 !.result = r.result,
                 !.repeat = /\ r.outcome = "ok"
                            /\ last.op = "upsert_objects"
                            /\ last.outcome = "ok"
                            /\ last.kind = models.kind
                            /\ last.input = models.items,
                 !.executed = r.executed,
                 !.opened = r.opened,
                 !.log = r.log]

UpsertObjects(models, fail_at) ==
    /\ ops < MaxOps
    /\ UpsertReturns(models,
                     upsert_objects(db, auto_increment, uuid, models, fail_at))
    /\ ops' = ops + 1
    /\ UNCHANGED <<container_of, orderVars, otherVars>>

DeleteObjects(type_, where) ==
    /\ ops < MaxOps
    /\ db' = delete_objects(db, type_, where)
    /\ last' = [NoOp EXCEPT !.op = "delete_objects", !.outcome = "ok",
                            !.type_ = type_, !.where = where,
                            !.executed = 1, !.opened = 1,
                            !.n = Len(Selected(db, type_, where))]
    /\ ops' = ops + 1
    /\ UNCHANGED <<container_of, auto_increment, uuid, orderVars, otherVars>>

FindReturns(type_, where, r) ==
    last' = [NoOp EXCEPT !.op = "find_object", !.outcome = r.outcome,
                         !.result = r.result, !.type_ = type_,
                         !.where = where, !.executed = 1, !.opened = 1,
                         !.n = Len(Selected(db, type_, where))]

FindObject(type_, where) ==
    /\ ops < MaxOps
    /\ FindReturns(type_, where, find_object(db, type_, where))
    /\ ops' = ops + 1
    /\ UNCHANGED <<container_of, db, auto_increment, uuid, orderVars, otherVars>>

FindObjects(type_, where, fetch_size) ==
    /\ ops < MaxOps
    /\ last' = [NoOp EXCEPT !.op = "find_objects", !.outcome = "ok",
                            !.result = find_objects(db, type_, where, fetch_size),
                            !.type_ = type_, !.where = where,
                            !.fetch_size = fetch_size,
                            !.executed = 1, !.opened = 1,
                            !.n = Len(Selected(db, type_, where))]
    /\ ops' = ops + 1
    /\ UNCHANGED <<container_of, db, auto_increment, uuid, orderVars, otherVars>>

\* the state of the operations a specification does not run
OrderIdle ==
    /\ types = <<>>
    /\ to_be_created = <<>>
    /\ created = <<>>
    /\ pc = "idle"
    /\ schema = {}
    /\ calls = 0

Idle == [pc |-> "idle"]

OthersIdle ==
    /\ heap = <<>>
    /\ call = Idle
    /\ stream = Idle
    /\ build = Idle

StoreIdle ==
    /\ db = <<>>
    /\ auto_increment = <<>>
    /\ uuid = 0
    /\ ops = 0
    /\ last = NoOp

Init ==
    /\ container_of = StorageSchema
    /\ db = [t \in Tables |-> <<>>]
    /\ auto_increment = [t \in {BaseTable(t) : t \in StoredTypes} |-> 0]
    /\ uuid = 0
    /\ ops = 0
    /\ last = NoOp
    /\ OrderIdle
    /\ OthersIdle

Next ==
    \/ \E models \in UpsertInputs :
        \E fail_at \in 0..StatementCount(models) :
            UpsertObjects(models, fail_at)
    \/ \E where \in Wheres(ContainerModel) :
            DeleteObjects(ContainerModel, where)
    \/ \E type_ \in StoredTypes : \E where \in Wheres(type_) :
            FindObject(type_, where)
    \/ \E type_ \in StoredTypes : \E where \in Wheres(type_) :
        \E fetch_size \in 1..MaxFetch :
            FindObjects(type_, where, fetch_size)

Spec == Init /\ [][Next]_vars

-----------------------------------------------------------------------------
(* Properties of the storage specification.                                *)

RootTable == get_table_name(ContainerModel, "")
PartBase == get_table_name(PartModel, "pbase")
SubPartBase == get_table_name(SubPartModel, "pbase")
CodesTable == get_table_name(PartModel, "codes")

OfRoot(rows, root_row_id) ==
    SelectSeq(rows, LAMBDA r : r.__root_row_id = root_row_id)

\* C1: whenever two or more stored rows satisfy the filter, find_object
\* raises; it returns a document only when exactly one row matches and None
\* only when no row matches.
C1_FindObjectRaisesOnAnyAmbiguity ==
    last.op = "find_object" =>
        /\ last.n >= 2 => last.outcome = "RuntimeError"
        /\ last.outcome = "found" => last.n = 1
        /\ last.outcome = "None" => last.n = 0

\* find_object on the identifying fields of an upserted document
FindUpserted(tables, model) ==
    find_object(tables, model.type, build_where(get_identifer_of(model)))

\* C2: after upsert_objects(D) of a root document D, find_object on the
\* identifying fields of the returned document finds a document equal to
\* it, nested parts included.
C2_UpsertFindRoundTrip ==
    (last.op = "upsert_objects" /\ last.outcome = "ok" /\ last.kind = "single")
        => /\ Len(last.result) = 1
           /\ FindUpserted(db, last.result[1]).outcome = "found"
           /\ ModelEq(FindUpserted(db, last.result[1]).result[1],
                      last.result[1])
           /\ Fields(last.result[1]).parts = Fields(last.input[1]).parts

\* a document with a generated id, two parts and a sub part went the round
C2_Witness ==
    /\ last.op = "upsert_objects" /\ last.outcome = "ok" /\ last.kind = "single"
    /\ last.input[1].id = EmptyId
    /\ last.result[1].id # EmptyId
    /\ Len(last.result[1].parts) = 2
    /\ \E k \in 1..2 : last.result[1].parts[k].parts # <<>>
    /\ FindUpserted(db, last.result[1]).outcome = "found"

\* the rows of a table without the row ids the backend generates for part
\* rows and the references to them
WithoutPartIds(rows) ==
    [i \in 1..Len(rows) |->
        [f \in DOMAIN rows[i] \ {"__row_id", "__container_row_id"} |->
            rows[i][f]]]

\* two storages hold the same root rows and, up to the generated ids of part
\* rows, the same part rows and side-table rows
SameRows(t1, t2) ==
    /\ t1[RootTable] = t2[RootTable]
    /\ \A t \in Tables \ {RootTable} :
            WithoutPartIds(t1[t]) = WithoutPartIds(t2[t])

\* this step is the second of two successful upserts of the same document
SecondUpsertOfSame ==
    /\ last.op = "upsert_objects" /\ last.outcome = "ok"
    /\ last.kind = "single"
    /\ last'.op = "upsert_objects" /\ last'.outcome = "ok"
    /\ last'.kind = "single"
    /\ last'.input = last.input

\* C3 as stated: upserting any root document D a second time with the same
\* content leaves one root row for D and the part and side-table rows of a
\* single upsert.
C3_UpsertTwiceAnyDocument ==
    [][SecondUpsertOfSame => SameRows(db, db')]_vars

\* C3, for identified documents: when no identifying field of D is empty,
\* upserting D a second time with the same content leaves exactly one root
\* row for D and the same part rows and side-table rows as a single upsert.
C3_UpsertTwiceIdentified ==
    [][(SecondUpsertOfSame /\ last.input[1].id # EmptyId)
        => /\ SameRows(db, db')
           /\ Cardinality({i \in 1..Len(db'[RootTable]) :
                            db'[RootTable][i].id = last.input[1].id}) = 1]_vars

\* an identified document with parts, array elements and a sub part was
\* upserted twice in a row
C3_Witness ==
    /\ last.op = "upsert_objects" /\ last.repeat /\ last.kind = "single"
    /\ last.input[1].id # EmptyId
    /\ Len(last.input[1].parts) = 2
    /\ \E k \in 1..2 : last.input[1].parts[k].parts # <<>>
    /\ Len(db[PartBase]) = 2

\* C4: a call of upsert_objects whose input holds a PartOf model raises the
\* RuntimeError before a cursor is opened or a statement executed: storage
\* and counters are as before, no model of the batch is written.
C4_PartOfRejectedBeforeAnyWrite ==
    [][(last'.op = "upsert_objects" /\ last'.mixins > 0)
        => /\ last'.outcome = "RuntimeError"
           /\ last'.opened = 0
           /\ last'.executed = 0
           /\ db' = db
           /\ auto_increment' = auto_increment
           /\ uuid' = uuid]_vars

\* a batch of a root document and a part was rejected on a database that
\* already held a document
C4_Witness ==
    /\ last.op = "upsert_objects" /\ last.outcome = "RuntimeError"
    /\ last.kind = "list" /\ last.size = 2 /\ last.mixins = 1
    /\ db[RootTable] # <<>>
    /\ db[PartBase] # <<>>

PathsAndNames(rows) ==
    [i \in 1..Len(rows) |-> <<rows[i].__json_path, rows[i].name>>]

CodesOf(rows) == [i \in 1..Len(rows) |-> rows[i].codes]

\* the part rows, sub part rows and array rows of the root row are the ones
\* its payload gives, each once and in order
RootConsistent(parts, subs, codes, root_row_id, doc) ==
    /\ Len(parts) = Len(doc.parts)
    /\ Len(subs) = SumSeq([k \in 1..Len(doc.parts) |-> Len(doc.parts[k].parts)])
    /\ Len(codes) = SumSeq([k \in 1..Len(doc.parts) |-> Len(doc.parts[k].codes)])
    /\ \A k \in 1..Len(parts) :
        /\ parts[k].__json_path = <<"parts", k - 1>>
        /\ parts[k].__container_row_id = root_row_id
        /\ parts[k].name = doc.parts[k].name
        /\ parts[k]._container_name = doc.name
        /\ \A j \in 1..Len(parts) : j # k => parts[j].__row_id # parts[k].__row_id
        /\ PathsAndNames(SelectSeq(subs,
                LAMBDA r : r.__container_row_id = parts[k].__row_id))
             = [j \in 1..Len(doc.parts[k].parts) |->
                    << <<"parts", j - 1>>, doc.parts[k].parts[j].name >>]
        /\ CodesOf(SelectSeq(codes, LAMBDA r : r.__row_id = parts[k].__row_id))
             = doc.parts[k].codes

Consistent(tables) ==
    \A i \in 1..Len(tables[RootTable]) :
        RootConsistent(
            OfRoot(tables[PartBase], tables[RootTable][i].__row_id),
            OfRoot(tables[SubPartBase], tables[RootTable][i].__row_id),
            OfRoot(tables[CodesTable], tables[RootTable][i].__row_id),
            tables[RootTable][i].__row_id,
            tables[RootTable][i].__json)

\* C5: the statements of one upsert_objects call run in one write cursor,
\* and when a statement of the cascade raises, storage is exactly what it
\* was before the call; no root row is left with part or side rows that do
\* not match its payload.
C5_OneWriteContextAllOrNothing ==
    [][last'.op = "upsert_objects"
        => /\ last'.opened <= 1
           /\ last'.executed > 0 => last'.opened = 1
           /\ last'.outcome = "BackendError" => db' = db
           /\ Consistent(db) => Consistent(db')]_vars

\* a statement in the middle of the cascade raised on a database that held
\* a document
C5_Witness ==
    /\ last.op = "upsert_objects" /\ last.outcome = "BackendError"
    /\ last.executed >= 4
    /\ last.opened = 1
    /\ db[RootTable] # <<>>

\* C6: after any sequence of upserts the part rows and side-table rows that
\* carry the row id of a root row are exactly those of the payload written
\* last: none of an earlier version, none twice.
C6_RowsOfLatestPayload == Consistent(db)

\* a stored document was upserted again with fewer parts: three part rows
\* were generated for the one root row, one is left
C6_Witness ==
    /\ last.op = "upsert_objects" /\ last.outcome = "ok"
    /\ Len(db[RootTable]) = 1
    /\ db[RootTable][1].__row_id = 1
    /\ auto_increment[RootTable] = 1
    /\ auto_increment[PartBase] = 3
    /\ Len(db[PartBase]) = 1

\* the parts of every stored container, and the sub parts of those
StoredParts(tables) ==
    Flatten([i \in 1..Len(tables[RootTable]) |->
        parse_raw(ContainerModel, tables[RootTable][i].__json).parts])

StoredSubParts(tables) ==
    Flatten([i \in 1..Len(StoredParts(tables)) |-> StoredParts(tables)[i].parts])

Count(s, x) == Cardinality({i \in 1..Len(s) : s[i] = x})

SameBag(s, t) ==
    /\ Len(s) = Len(t)
    /\ \A x \in Range(s) \cup Range(t) : Count(s, x) = Count(t, x)

\* the record of a part is the part its path addresses in the payload of
\* its own container, with the name of that container
OfOwnContainer(record, roots) ==
    \E i \in 1..Len(roots) :
        /\ roots[i].__row_id = record.__root_row_id
        /\ record._container_name = roots[i].__json.name
        /\ record.__json = JSON_EXTRACT(roots[i].__json, record.__json_path)

\* C7: find_objects on a part type with no filter returns the parts of the
\* stored containers, each once, none missing and none extra, at either
\* depth, and each record read carries the values of its own container.
C7_FindObjectsReturnsTheParts ==
    (last.op = "find_objects" /\ last.where = <<>>)
        => /\ last.type_ = PartModel =>
                /\ SameBag(FieldsOfAll(last.result),
                           FieldsOfAll(StoredParts(db)))
                /\ \A r \in Range(query_records(db, PartModel, <<>>,
                                                last.fetch_size)) :
                        OfOwnContainer(r, db[RootTable])
           /\ last.type_ = SubPartModel =>
                SameBag(FieldsOfAll(last.result),
                        FieldsOfAll(StoredSubParts(db)))

\* the parts of two containers with different names were read one row at a
\* time
C7_Witness ==
    /\ last.op = "find_objects" /\ last.where = <<>>
    /\ last.type_ = PartModel
    /\ last.fetch_size = 1
    /\ Len(last.result) = 3
    /\ Len(db[RootTable]) = 2
    /\ db[RootTable][1].name # db[RootTable][2].name

\* C12: once delete_objects(type_, where) has completed, find_object with
\* the same type and filter returns None.
C12_DeletedIsNotFound ==
    (last.op = "delete_objects" /\ last.outcome = "ok")
        => find_object(db, last.type_, last.where).outcome = "None"

\* a delete whose filter matched stored rows, other rows being kept
C12_Witness ==
    /\ last.op = "delete_objects"
    /\ last.n >= 1
    /\ last.where # <<>>

\* C13: delete_objects executes one statement; it removes from the primary
\* table of the type the rows the filter selects and leaves every other
\* table, the part base tables and the array side tables, as it was.
C13_DeleteOnPrimaryTableOnly ==
    [][last'.op = "delete_objects" =>
        /\ last'.executed = 1
        /\ db'[get_table_name(last'.type_, "")]
             = SelectSeq(db[get_table_name(last'.type_, "")],
                         LAMBDA r : ~Satisfies(r, last'.where))
        /\ \A t \in DOMAIN db \ {get_table_name(last'.type_, "")} :
                db'[t] = db[t]]_vars

\* a delete removed a root whose part, nested part and side rows are stored
C13_Witness ==
    /\ last.op = "delete_objects"
    /\ last.n >= 1
    /\ \E i \in 1..Len(db[PartBase]) : \E j \in 1..Len(db[SubPartBase]) :
        \E k \in 1..Len(db[CodesTable]) :
            /\ db[SubPartBase][j].__container_row_id = db[PartBase][i].__row_id
            /\ db[CodesTable][k].__root_row_id = db[PartBase][i].__root_row_id
            /\ \A r \in Range(db[RootTable]) :
                    r.__row_id # db[PartBase][i].__root_row_id

\* the row ids of the stored root documents
RootRowIds(tables) == {r.__row_id : r \in Range(tables[RootTable])}

\* C14: part rows and side rows exist only for stored roots: no row of a
\* part base table or of a side table carries the row id of a root that is
\* not stored.
C14_NoRowOfADeletedRoot ==
    \A t \in {PartBase, SubPartBase, CodesTable} :
        \A r \in Range(db[t]) : r.__root_row_id \in RootRowIds(db)

Writes(log, j, type_) ==
    /\ log[j].type_ = type_
    /\ log[j].sql = IF IsRoot(type_) THEN "UPSERT" ELSE "INSERT_PART"

\* the rows of type_ were written before position i, for the same root
WrittenBefore(log, i, type_) ==
    \E j \in 1..(i - 1) :
        /\ Writes(log, j, type_)
        /\ \A k \in (j + 1)..i : log[k].sql # "UPSERT"

\* C24: in the statements one upsert executes, the primary upsert of a root
\* comes first; the DELETE of a part type comes right before its INSERT,
\* both after the rows of its container type were written, and so before
\* any statement of its own nested part types; the DELETE and INSERT of a
\* side table come after the rows of their own type were written.
C24_CascadeOrder ==
    last.op = "upsert_objects" =>
        \A i \in 1..Len(last.log) :
            /\ i = 1 => last.log[i].sql = "UPSERT"
            /\ last.log[i].sql = "DELETE_PART"
                => /\ WrittenBefore(last.log, i, last.log[i].from)
                   /\ i < Len(last.log)
                        => /\ last.log[i + 1].sql = "INSERT_PART"
                           /\ last.log[i + 1].type_ = last.log[i].type_
            /\ last.log[i].sql = "INSERT_PART"
                => /\ i > 1
                   /\ last.log[i - 1].sql = "DELETE_PART"
                   /\ last.log[i - 1].type_ = last.log[i].type_
            /\ last.log[i].sql \in {"DELETE_EXT", "INSERT_EXT"}
                => WrittenBefore(last.log, i, last.log[i].type_)
            /\ last.log[i].sql = "INSERT_EXT"
                => /\ last.log[i - 1].sql = "DELETE_EXT"
                   /\ last.log[i - 1].field = last.log[i].field

\* a batch of two documents was upserted: the statements of the nested part
\* type and of the side table ran once for each
C24_Witness ==
    /\ last.op = "upsert_objects"
    /\ last.outcome = "ok"
    /\ last.size = 2
    /\ Cardinality({i \in 1..Len(last.log) :
            last.log[i].sql = "INSERT_PART"
                /\ last.log[i].type_ = SubPartModel}) = 2
    /\ Cardinality({i \in 1..Len(last.log) :
            last.log[i].sql = "INSERT_EXT"}) = 2

StatementsFor(items) ==
    SumSeq([i \in 1..Len(items) |-> 1 + CascadeCount(items[i].type)])

\* C28: for a list, a tuple or a one-shot iterator of root documents,
\* upsert_objects writes every document and returns one entry per input
\* document, in input order; for one document it returns that document.
C28_EveryDocumentOfAnIterable ==
    (last.op = "upsert_objects" /\ last.outcome = "ok")
        => /\ Len(last.result) = last.size
           /\ last.executed = StatementsFor(last.input)
           /\ \A i \in 1..Len(last.result) :
                /\ Fields(last.result[i]).name = Fields(last.input[i]).name
                /\ Fields(last.result[i]).parts = Fields(last.input[i]).parts

-----------------------------------------------------------------------------
(* The creation order of create_table, over every part-of forest of the    *)
(* types: _iterate_types_for_creating_order is a generator, create_table   *)
(* executes the statements of a type as soon as the type is yielded.       *)

\* the containers of a type, its own container first
RECURSIVE Ancestors(_)
Ancestors(type_) ==
    IF container_of[type_] = NoType THEN {}
    ELSE {container_of[type_]} \cup Ancestors(container_of[type_])

\* every assignment of containers in which no type contains itself
Reaches(f, t, k) ==
    LET Up[i \in 0..k] == IF i = 0 THEN t
                          ELSE IF Up[i - 1] = NoType THEN NoType
                          ELSE f[Up[i - 1]]
    IN  Up[k]

Forests ==
    {f \in [Types -> Types \cup {NoType}] :
        \A t \in Types : Reaches(f, t, Cardinality(Types)) = NoType}

\* the tuples of distinct types create_table is called with
TypeTuples ==
    {ts \in SeqUpTo(Types, MaxInput) :
        /\ ts # <<>>
        /\ \A i, j \in 1..Len(ts) : i # j => ts[i] # ts[j]}

RECURSIVE _traverse_all_part_types(_)
RECURSIVE TraverseParts(_)

\* the loop `for part_type in get_part_types(type_)`
TraverseParts(part_types) ==
    IF part_types = <<>> THEN <<>>
    ELSE <<Head(part_types)>> \o _traverse_all_part_types(Head(part_types))
         \o TraverseParts(Tail(part_types))

\* a traversal that stops at the part types directly nested in type_
_traverse_direct_part_types(type_) == get_part_types(type_)

_traverse_all_part_types(type_) == TraverseParts(get_part_types(type_))

\* deque.remove(x) for every x of xs that is in the deque: the first
\* occurrence goes
RECURSIVE RemoveFirst(_, _)
RemoveFirst(q, x) ==
    IF q = <<>> THEN <<>>
    ELSE IF Head(q) = x THEN Tail(q)
    ELSE <<Head(q)>> \o RemoveFirst(Tail(q), x)

RECURSIVE RemoveAll(_, _)
RemoveAll(q, xs) ==
    IF xs = <<>> THEN q ELSE RemoveAll(RemoveFirst(q, Head(xs)), Tail(xs))

\* the statements that create the relations of a type: the primary table
\* of a root type, the base table and the view of a part type, and one side
\* table per array field
CreateStatements(type_, if_not_exists) ==
    (IF IsRoot(type_)
     THEN << [sql |-> "CREATE TABLE", name |-> get_table_name(type_, ""),
              if_not_exists |-> if_not_exists] >>
     ELSE << [sql |-> "CREATE TABLE", name |-> get_table_name(type_, "pbase"),
              if_not_exists |-> if_not_exists],
             [sql |-> "CREATE VIEW", name |-> get_table_name(type_, ""),
              if_not_exists |-> if_not_exists] >>)
    \o [i \in 1..Len(ArrayIndexFields(type_)) |->
            [sql |-> "CREATE TABLE",
             name |-> get_table_name(type_, ArrayIndexFields(type_)[i]),
             if_not_exists |-> if_not_exists]]

\* statements that are plain CREATE TABLE / CREATE VIEW
get_sql_for_creating_table_plain(type_) == CreateStatements(type_, FALSE)

\* every statement is CREATE TABLE IF NOT EXISTS / CREATE VIEW IF NOT EXISTS
get_sql_for_creating_table(type_) == CreateStatements(type_, TRUE)

\* cursor.execute(sql) of the i-th of the CREATE statements sqls raises: the
\* name exists, in relations or by an earlier statement, and the statement
\* has no IF NOT EXISTS
ExecuteRaises(relations, sqls, i) ==
    /\ ~sqls[i].if_not_exists
    /\ \/ \E r \in relations : r.name = sqls[i].name
       \/ \E j \in 1..(i - 1) : sqls[j].name = sqls[i].name

\* for sql in get_sql_for_creating_table(type_): cursor.execute(sql), for
\* the statements of the yielded types: a statement creates its relation
\* unless the name exists, and nothing is executed after one that raises
ExecuteCreateAll(st, sqls) ==
    [relations |-> st.relations \cup
        {[name |-> sqls[i].name, sql |-> sqls[i].sql] :
            i \in {k \in 1..Len(sqls) :
                    /\ \A j \in 1..k : ~ExecuteRaises(st.relations, sqls, j)
                    /\ \A r \in st.relations : r.name # sqls[k].name}},
     raised |-> \E i \in 1..Len(sqls) : ExecuteRaises(st.relations, sqls, i)]

\* create_table(pool, *types_): the generator is started on the types; a
\* later call passes the same types again
CreateTable(types_) ==
    /\ \/ pc = "idle"
       \/ pc = "done" /\ calls < MaxCalls /\ types_ = types
    /\ types' = types_
    /\ to_be_created' = types_
    /\ created' = <<>>
    /\ pc' = "iterating"
    /\ calls' = calls + 1
    /\ UNCHANGED <<container_of, storeVars, otherVars, schema>>

\* a deferral that puts the type back at the front of the deque
DeferAppendLeft ==
    /\ pc = "iterating"
    /\ to_be_created # <<>>
    /\ get_container_type(Head(to_be_created)) \in Range(Tail(to_be_created))
    /\ to_be_created' = <<Head(to_be_created)>> \o Tail(to_be_created)
    /\ UNCHANGED <<container_of, storeVars, otherVars, types, created, pc,
                   schema, calls>>

\* one turn of the while loop in which the container is still waiting: the
\* type goes back to the end of the deque
Defer ==
    /\ pc = "iterating"
    /\ to_be_created # <<>>
    /\ get_container_type(Head(to_be_created)) \in Range(Tail(to_be_created))
    /\ to_be_created' = Append(Tail(to_be_created), Head(to_be_created))
    /\ UNCHANGED <<container_of, storeVars, otherVars, types, created, pc,
                   schema, calls>>

\* the statements of each yielded type are executed as it is yielded; a
\* statement that raises ends create_table
Executed(st) ==
    /\ schema' = st.relations
    /\ pc' = IF st.raised THEN "raised" ELSE "iterating"

\* one turn of the while loop that yields the type and, depth first, every
\* part type nested in it, taking those out of the deque; the statements of
\* the yielded types are built once and executed in their order
Yield ==
    /\ pc = "iterating"
    /\ to_be_created # <<>>
    /\ get_container_type(Head(to_be_created)) \notin Range(Tail(to_be_created))
    /\ created' = created \o <<Head(to_be_created)>>
                    \o _traverse_all_part_types(Head(to_be_created))
    /\ to_be_created' = RemoveAll(Tail(to_be_created),
                                  _traverse_all_part_types(Head(to_be_created)))
    /\ \E sqls \in {Flatten([i \in 1..(1 + Len(_traverse_all_part_types(
                                        Head(to_be_created)))) |->
                get_sql_for_creating_table(
                    (<<Head(to_be_created)>>
                        \o _traverse_all_part_types(Head(to_be_created)))[i])])} :
            \E st \in {ExecuteCreateAll([relations |-> schema,
                                         raised |-> FALSE], sqls)} :
                Executed(st)
    /\ UNCHANGED <<container_of, storeVars, otherVars, types, calls>>

\* the deque is empty: the generator is exhausted, the cursor is closed
Exhausted ==
    /\ pc = "iterating"
    /\ to_be_created = <<>>
    /\ pc' = "done"
    /\ UNCHANGED <<container_of, storeVars, otherVars, types, to_be_created,
                   created, schema, calls>>

InitOrder ==
    /\ container_of \in Forests
    /\ StoreIdle
    /\ OrderIdle
    /\ OthersIdle

NextOrder ==
    \/ \E types_ \in TypeTuples : CreateTable(types_)
    \/ Defer
    \/ Yield
    \/ Exhausted

SpecOrder == InitOrder /\ [][NextOrder]_vars

\* create_table runs its loop to the end once it is called: no turn of the
\* while loop waits for anything
SpecOrderLive == SpecOrder /\ WF_vars(Defer \/ Yield \/ Exhausted)

-----------------------------------------------------------------------------
(* Properties of the creation order.                                       *)

\* the part types nested in a type at any depth
Descendants(type_) == {t \in Types : type_ \in Ancestors(t)}

\* C8: in the creation order a type comes only after every type it is
\* contained in, its container and the containers of that, and the part
\* types nested in a type follow it immediately, depth first.
C8_CreatedAfterEveryContainer ==
    \A i \in 1..Len(created) :
        /\ \A a \in Ancestors(created[i]) :
                \E j \in 1..(i - 1) : created[j] = a
        /\ get_part_types(created[i]) # <<>> =>
                /\ i + Len(_traverse_all_part_types(created[i])) <= Len(created)
                /\ SubSeq(created, i + 1,
                          i + Len(_traverse_all_part_types(created[i])))
                       = _traverse_all_part_types(created[i])

\* C9: the creation order holds no type twice, whatever the order of the
\* input and whether or not a part is given with its container or with an
\* ancestor.
C9_NoTypeCreatedTwice ==
    \A i, j \in 1..Len(created) : i # j => created[i] # created[j]

C29_IterationTerminatesWithEveryType ==
    /\ (pc = "iterating") ~> (pc = "done")
    /\ [](pc = "done" => Range(types) \subseteq Range(created))

\* an iteration ended whose first type had to wait for its container,
\* which was passed after it
C29_Witness ==
    /\ pc = "done"
    /\ Len(types) >= 2
    /\ \E i \in 2..Len(types) : types[i] = get_container_type(types[1])
    /\ Range(types) \subseteq Range(created)

-----------------------------------------------------------------------------
(* ormdantic/schema/base.py: identifier assignment on objects that have an *)
(* identity.  The heap is a sequence of objects and the address of an      *)
(* object is its index; a model has an identifying field id, a part field  *)
(* part and a field parts that holds a list or a tuple of parts; None is   *)
(* the address 0.                                                          *)

NoneValue == 0

ModelFields == <<"id", "part", "parts">>

ModelObject(id, part, parts) ==
    [kind |-> "model", id |-> id, part |-> part, parts |-> parts,
     items |-> <<>>]

VectorObject(kind, items) ==
    [kind |-> kind, id |-> EmptyId, part |-> NoneValue, parts |-> NoneValue,
     items |-> items]

\* getattr(model, field_name): an IdStr or a reference
FieldValue(h, model, field_name) ==
    IF field_name = "id" THEN <<"id", h[model].id>>
    ELSE <<"ref", h[model][field_name]>>

\* isinstance(obj, PartOfMixin) and isinstance(obj, SchemaBaseModel)
IsPartModel(h, obj) ==
    obj[1] = "ref" /\ obj[2] # NoneValue /\ h[obj[2]].kind = "model"

\* isinstance(obj, (list, tuple))
IsVector(h, obj) ==
    obj[1] = "ref" /\ obj[2] # NoneValue /\ h[obj[2]].kind \in {"list", "tuple"}

\* what a call returns: the heap, the uuids drawn, and the value, <<>> for
\* None
Returns(h, n, ret) == [heap |-> h, n |-> n, ret |-> ret]

\* an update always made on the model itself
NewToBeUpdatedInPlace(h, model, inplace) == [heap |-> h, ret |-> model]

\* to_be_updated = model if inplace else model.copy()
NewToBeUpdated(h, model, inplace) ==
    IF inplace THEN [heap |-> h, ret |-> model]
    ELSE [heap |-> Append(h, h[model]), ret |-> Len(h) + 1]

\* setattr(to_be_updated, field_name, updated_value)
SetAttr(t, n, field_name, updated_value) ==
    Returns([t.heap EXCEPT ![t.ret][field_name] = updated_value[2]], n, t.ret)

\* to_be_updated.append(replaced), when there is a list to append to
Appended(to_be_updated, replaced) ==
    IF to_be_updated = <<>> THEN <<>>
    ELSE << Append(to_be_updated[1],
                   IF replaced = <<>> THEN NoneValue ELSE replaced[1][2]) >>

RECURSIVE assign_identifying_fields_of(_, _, _, _)
RECURSIVE AssignFields(_, _, _, _, _, _)
RECURSIVE _replace_scalar_value_if_empty_value(_, _, _, _)
RECURSIVE _replace_vector_if_empty_value(_, _, _, _)
RECURSIVE VectorLoop(_, _, _, _, _, _)
RECURSIVE updated_value(_, _, _, _)

_replace_scalar_value_if_empty_value(h, n, obj, inplace) ==
    IF obj[1] = "id"
    THEN IF new_if_empty(obj[2], n) # obj[2]
         THEN Returns(h, n + 1, << <<"id", new_if_empty(obj[2], n)>> >>)
         ELSE Returns(h, n, <<>>)
    ELSE IF IsPartModel(h, obj)
         THEN LET replaced ==
                    assign_identifying_fields_of(h, n, obj[2], inplace)
              IN  IF replaced.ret # obj[2]
                  THEN Returns(replaced.heap, replaced.n,
                               << <<"ref", replaced.ret>> >>)
                  ELSE Returns(replaced.heap, replaced.n, <<>>)
         ELSE Returns(h, n, <<>>)

\* for index, item in enumerate(obj): the list is started from obj[:index]
\* at the first item that was replaced, and from then on what
\* _replace_scalar_value_if_empty_value returned is appended
VectorLoop(h, n, items, inplace, index, to_be_updated) ==
    IF index > Len(items) THEN Returns(h, n, to_be_updated)
    ELSE LET replaced == _replace_scalar_value_if_empty_value(
                            h, n, <<"ref", items[index]>>, inplace)
         IN  VectorLoop(replaced.heap, replaced.n, items, inplace, index + 1,
                Appended(IF (to_be_updated = <<>> \/ to_be_updated[1] = <<>>)
                                /\ replaced.ret # <<>>
                         THEN << SubSeq(items, 1, index - 1) >>
                         ELSE to_be_updated,
                         replaced.ret))

\* the list the loop leaves is returned as a new list or tuple
_replace_vector_if_empty_value(h, n, obj, inplace) ==
    IF IsVector(h, obj) /\ h[obj[2]].items # <<>>
    THEN LET r == VectorLoop(h, n, h[obj[2]].items, inplace, 1, <<>>)
         IN  IF r.ret = <<>> THEN r
             ELSE Returns(Append(r.heap,
                                 VectorObject(h[obj[2]].kind, r.ret[1])),
                          r.n, << <<"ref", Len(r.heap) + 1>> >>)
    ELSE Returns(h, n, <<>>)

\* _replace_scalar_value_if_empty_value(..) or
\* _replace_vector_if_empty_value(..)
updated_value(h, n, field_value, inplace) ==
    LET r == _replace_scalar_value_if_empty_value(h, n, field_value, inplace)
    IN  IF r.ret # <<>> THEN r
        ELSE _replace_vector_if_empty_value(r.heap, r.n, field_value, inplace)

\* for field_name in type(model).__fields__.keys(): ...
AssignFields(h, n, model, inplace, to_be_updated, field_names) ==
    IF field_names = <<>> THEN Returns(h, n, to_be_updated)
    ELSE LET r == updated_value(h, n,
                      FieldValue(h, model, Head(field_names)), inplace)
             t == IF to_be_updated = NoneValue
                  THEN NewToBeUpdated(r.heap, model, inplace)
                  ELSE [heap |-> r.heap, ret |-> to_be_updated]
         IN  IF r.ret = <<>>
             THEN AssignFields(r.heap, r.n, model, inplace, to_be_updated,
                               Tail(field_names))
             ELSE AssignFields(
                    SetAttr(t, r.n, Head(field_names), r.ret[1]).heap,
                    r.n, model, inplace, t.ret, Tail(field_names))

\* assign_identifying_fields_if_empty(model, inplace) on the heap h, n
\* uuids having been drawn: return to_be_updated or model
assign_identifying_fields_of(h, n, model, inplace) ==
    LET r == AssignFields(h, n, model, inplace, NoneValue, ModelFields)
    IN  IF r.ret = NoneValue THEN Returns(r.heap, r.n, model) ELSE r

-----------------------------------------------------------------------------
(* The assignment specification: a document is built, then                 *)
(* assign_identifying_fields_if_empty is called on it once.                *)

\* the values of an identifying field: empty, or set by the caller
AssignIds == {EmptyId} \cup UserIds

\* documents as values: part is <<>> or one document, parts is <<>> or a
\* kind and the documents of the list or tuple
Leaves == {[id |-> id, part |-> <<>>, parts |-> <<>>] : id \in AssignIds}

NestedParts ==
    {[id |-> id, part |-> <<>>, parts |-> parts] :
        id \in AssignIds,
        parts \in {<<>>} \cup {<<"tuple", ms>> : ms \in SeqUpTo(Leaves, MaxNested)}}

RootDocuments ==
    {[id |-> id, part |-> part, parts |-> <<kind, ms>>] :
        id \in AssignIds,
        part \in {<<>>} \cup {<<m>> : m \in Leaves},
        kind \in {"list", "tuple"},
        ms \in SeqUpTo(NestedParts, MaxItems)}

\* the construction of a document: its part, the members of its list or
\* tuple in order, the list or tuple, and the document last
RECURSIVE Construct(_, _)
RECURSIVE ConstructAll(_, _, _)

ConstructAll(h, documents, items) ==
    IF documents = <<>> THEN [heap |-> h, ret |-> items]
    ELSE LET t == Construct(h, Head(documents))
         IN  ConstructAll(t.heap, Tail(documents), Append(items, t.ret))

Construct(h, document) ==
    LET p == IF document.part = <<>> THEN [heap |-> h, ret |-> NoneValue]
             ELSE Construct(h, document.part[1])
        ms == IF document.parts = <<>> THEN [heap |-> p.heap, ret |-> <<>>]
              ELSE ConstructAll(p.heap, document.parts[2], <<>>)
        v == IF document.parts = <<>> THEN [heap |-> p.heap, ret |-> NoneValue]
             ELSE [heap |-> Append(ms.heap,
                                   VectorObject(document.parts[1], ms.ret)),
                   ret |-> Len(ms.heap) + 1]
    IN  [heap |-> Append(v.heap, ModelObject(document.id, p.ret, v.ret)),
         ret |-> Len(v.heap) + 1]

\* the document built last is passed to assign_identifying_fields_if_empty
Assign(inplace) ==
    /\ call.pc = "idle"
    /\ heap' = assign_identifying_fields_of(heap, 0, Len(heap), inplace).heap
    /\ call' = [pc |-> "returned", inplace |-> inplace, model |-> Len(heap),
                result |-> assign_identifying_fields_of(
                                heap, 0, Len(heap), inplace).ret,
                before |-> heap,
                n |-> assign_identifying_fields_of(
                                heap, 0, Len(heap), inplace).n]
    /\ UNCHANGED <<container_of, storeVars, orderVars, stream, build>>

InitAssign ==
    /\ container_of = StorageSchema
    /\ StoreIdle
    /\ OrderIdle
    /\ stream = Idle
    /\ build = Idle
    /\ heap \in {Construct(<<>>, d).heap : d \in RootDocuments}
    /\ call = Idle

NextAssign == \E inplace \in BOOLEAN : Assign(inplace)

SpecAssign == InitAssign /\ [][NextAssign]_vars

\* b is a with every empty identifying field assigned: the same fields, the
\* same members at the same positions, no identifying field empty, and each
\* identifying field that was set before with the value it had
RECURSIVE Assigned(_, _, _, _)
Assigned(hb, a, ha, b) ==
    /\ b # NoneValue
    /\ ha[b].kind = hb[a].kind
    /\ IF hb[a].kind = "model"
       THEN /\ ha[b].id # EmptyId
            /\ hb[a].id # EmptyId => ha[b].id = hb[a].id
            /\ IF hb[a].part = NoneValue THEN ha[b].part = NoneValue
               ELSE Assigned(hb, hb[a].part, ha, ha[b].part)
            /\ IF hb[a].parts = NoneValue THEN ha[b].parts = NoneValue
               ELSE Assigned(hb, hb[a].parts, ha, ha[b].parts)
       ELSE /\ Len(ha[b].items) = Len(hb[a].items)
            /\ \A i \in 1..Len(hb[a].items) :
                    Assigned(hb, hb[a].items[i], ha, ha[b].items[i])

\* C15: in the document assign_identifying_fields_if_empty returns, every
\* identifying field of the root and of every nested part, as a scalar
\* field or as a member of a list or tuple at any depth, is non-empty, and
\* every identifying field that was non-empty has kept its value.
C15_EveryIdentifyingFieldAssigned ==
    call.pc = "returned"
        => Assigned(call.before, call.model, heap, call.result)

\* an identifying field is empty in a or in a part nested in a
RECURSIVE NeedsAny(_, _)
NeedsAny(h, a) ==
    IF h[a].kind = "model"
    THEN \/ h[a].id = EmptyId
         \/ h[a].part # NoneValue /\ NeedsAny(h, h[a].part)
         \/ h[a].parts # NoneValue /\ NeedsAny(h, h[a].parts)
    ELSE \E i \in 1..Len(h[a].items) : NeedsAny(h, h[a].items[i])

\* b stands where a stood, and every part of a that needed no assignment
\* is the same object at the same position in b
RECURSIVE Kept(_, _, _, _)
Kept(hb, a, ha, b) ==
    IF ~NeedsAny(hb, a) THEN b = a
    ELSE /\ b # NoneValue
         /\ IF hb[a].kind = "model"
            THEN /\ hb[a].part # NoneValue
                    => Kept(hb, hb[a].part, ha, ha[b].part)
                 /\ hb[a].parts # NoneValue
                    => Kept(hb, hb[a].parts, ha, ha[b].parts)
            ELSE /\ Len(ha[b].items) = Len(hb[a].items)
                 /\ \A i \in 1..Len(hb[a].items) :
                        Kept(hb, hb[a].items[i], ha, ha[b].items[i])

\* C16: in the result of assign_identifying_fields_if_empty every nested
\* part without an empty identifying field is the same object at the same
\* position as in the input, whatever its position among members that did
\* need assignment, and a document that needs nothing is returned itself.
C16_OnlyWhatNeededIsReplaced ==
    call.pc = "returned" => Kept(call.before, call.model, heap, call.result)

\* C17: with inplace = False no object of the input is modified: the
\* document, its parts and its lists and tuples are after the call as they
\* were before it, and every change is in a new object.
C17_InputUntouched ==
    (call.pc = "returned" /\ ~call.inplace)
        => \A a \in 1..Len(call.before) : heap[a] = call.before[a]

\* a call with inplace = False assigned the identifier of the root and of a
\* member of its list: the result is a new document with a new list, and
\* the identifier of the input is still empty
C17_Witness ==
    /\ call.pc = "returned"
    /\ ~call.inplace
    /\ call.n >= 2
    /\ call.result # call.model
    /\ heap[call.model].id = EmptyId
    /\ heap[call.result].id # EmptyId
    /\ heap[call.result].parts # heap[call.model].parts

-----------------------------------------------------------------------------
(* ormdantic/database/storage.py: query_records and find_objects as lazy   *)
(* sequences.  The generator is created, advanced by next(), and closed by *)
(* the caller or by its own end; its cursor is the context of the `with`   *)
(* block.                                                                  *)

\* query_records opens its cursor without the write flag
QueryWriteMode == FALSE

\* a block entered without `with`: leaving it releases nothing
LeaveWithout(st, pc_) == [st EXCEPT !.pc = pc_]

\* the `with pool.open_cursor() as cursor` block is left, by its end, by an
\* exception or by GeneratorExit: the context is released
LeaveWith(st, pc_) == [st EXCEPT !.pc = pc_, !.acquired = @ - 1]

\* with pool.open_cursor() as cursor: the context is acquired
EnterWith(st) ==
    [st EXCEPT !.acquired = @ + 1, !.opened = @ + 1, !.write = QueryWriteMode]

\* results := cursor.fetchmany(fetch_size), then `yield from results` up to
\* its first yield; an empty batch ends the loop and the block
Fetched(st, fail) ==
    IF fail = "fetch" THEN LeaveWith(st, "raised")
    ELSE IF st.rows = 0
         THEN LeaveWith([st EXCEPT !.fetches = @ + 1], "exhausted")
    ELSE [st EXCEPT !.pc = "suspended",
                    !.fetches = @ + 1,
                    !.batch = Min(st.fetch_size, st.rows) - 1,
                    !.rows = @ - Min(st.fetch_size, st.rows),
                    !.yielded = @ + 1,
                    !.out = Append(@, st.total - st.rows + 1)]

\* query_and_param = get_query_and_args_for_reading(...)
Compiled(st) == [st EXCEPT !.compiled = @ + 1]

\* cursor.execute(*query_and_param)
Execute(st) == [st EXCEPT !.executed = @ + 1]

\* the generator runs from where it stands to its next yield or to its end;
\* its first run compiles the query, enters the block and executes the
\* query; a later run yields the next row of the batch, the one after the
\* rows the cursor has passed less those of the batch still to be yielded
Resumed(st, fail) ==
    IF st.pc = "created"
    THEN IF fail = "compile" THEN [st EXCEPT !.pc = "raised"]
         ELSE IF fail = "execute"
              THEN LeaveWith(EnterWith(Compiled(st)), "raised")
              ELSE Fetched(Execute(EnterWith(Compiled(st))), fail)
    ELSE IF st.batch > 0
         THEN [st EXCEPT !.batch = @ - 1, !.yielded = @ + 1,
                         !.out = Append(@, st.total - st.rows - st.batch + 1)]
         ELSE Fetched(st, fail)

\* a call that builds the statement before it returns the sequence
QueryRecordsEagerly(caller, rows, fetch_size) ==
    /\ stream.pc = "idle"
    /\ stream' = [pc |-> "created", caller |-> caller, rows |-> rows,
                  fetch_size |-> fetch_size, batch |-> 0, yielded |-> 0,
                  acquired |-> 0, opened |-> 0, write |-> FALSE,
                  total |-> rows, compiled |-> 1, executed |-> 0,
                  fetches |-> 0, out |-> <<>>]
    /\ UNCHANGED <<container_of, storeVars, orderVars, heap, call, build>>

\* query_records(pool, type_, where, fetch_size), or find_objects over it:
\* the call makes the generator and runs none of its body
QueryRecords(caller, rows, fetch_size) ==
    /\ stream.pc = "idle"
    /\ stream' = [pc |-> "created", caller |-> caller, rows |-> rows,
                  fetch_size |-> fetch_size, batch |-> 0, yielded |-> 0,
                  acquired |-> 0, opened |-> 0, write |-> FALSE,
                  total |-> rows, compiled |-> 0, executed |-> 0,
                  fetches |-> 0, out |-> <<>>]
    /\ UNCHANGED <<container_of, storeVars, orderVars, heap, call, build>>

\* next(): find_objects advances query_records and converts the record;
\* building the statement and execute can raise on the first run only,
\* fetchmany only when a batch is to be fetched
Advance(fail) ==
    /\ stream.pc \in {"created", "suspended"}
    /\ \/ fail = "none"
       \/ fail = "compile" /\ stream.pc = "created"
       \/ fail = "execute" /\ stream.pc = "created"
       \/ fail = "fetch" /\ (stream.pc = "created" \/ stream.batch = 0)
    /\ stream' = Resumed(stream, fail)
    /\ UNCHANGED <<container_of, storeVars, orderVars, heap, call, build>>

\* generator.close(): GeneratorExit is raised at the yield the generator is
\* suspended at, inside the `with` block; a generator that never ran ends
\* without running.  Closing find_objects unwinds its frame, which
\* finalises the query_records generator it iterates
Close ==
    /\ stream.pc \in {"created", "suspended"}
    /\ stream' = IF stream.pc = "suspended" THEN LeaveWith(stream, "closed")
                 ELSE [stream EXCEPT !.pc = "closed"]
    /\ UNCHANGED <<container_of, storeVars, orderVars, heap, call, build>>

InitStream ==
    /\ container_of = StorageSchema
    /\ StoreIdle
    /\ OrderIdle
    /\ heap = <<>>
    /\ call = Idle
    /\ build = Idle
    /\ stream = Idle

NextStream ==
    \/ \E caller \in {"query_records", "find_objects"} :
        \E rows \in 0..MaxRows : \E fetch_size \in 1..MaxFetch :
            QueryRecords(caller, rows, fetch_size)
    \/ \E fail \in {"none", "compile", "execute", "fetch"} : Advance(fail)
    \/ Close

SpecStream == InitStream /\ [][NextStream]_vars

\* C18: a streaming read holds one read-mode context while its sequence is
\* partially consumed and holds none once the sequence has ended, whether
\* it was exhausted, closed early, or ended by an error of execute or of a
\* fetch; it never opens a second context.
C18_ContextReleasedOnEveryExit ==
    stream.pc # "idle"
        => /\ stream.opened <= 1
           /\ stream.pc = "suspended"
                => stream.acquired = 1 /\ ~stream.write
           /\ stream.pc \in {"created", "exhausted", "closed", "raised"}
                => stream.acquired = 0

\* a sequence of find_objects was closed after some of its rows were read
\* and before the rest was fetched
C18_Witness ==
    /\ stream.pc = "closed"
    /\ stream.caller = "find_objects"
    /\ stream.opened = 1
    /\ stream.yielded >= 1
    /\ stream.rows >= 1

\* C30: a streaming read is lazy.  The call of query_records or find_objects
\* builds no statement, acquires no context and executes nothing; from the
\* first request on the rows are fetched in batches of fetch_size, the rows
\* yielded so far are the first rows of the backend in its order, each
\* once, and the sequence ends at the first empty batch, after every row.
C30_LazyBatchedInOrder ==
    stream.pc # "idle"
        => /\ stream.pc = "created"
                => /\ stream.compiled = 0 /\ stream.opened = 0
                   /\ stream.executed = 0 /\ stream.fetches = 0
                   /\ stream.out = <<>>
           /\ stream.compiled <= 1 /\ stream.executed <= 1
           /\ stream.out = [k \in 1..Len(stream.out) |-> k]
           /\ Len(stream.out) <= stream.total
           /\ stream.pc = "suspended"
                => /\ stream.out # <<>>
                   /\ stream.fetches = (Len(stream.out) + stream.fetch_size - 1)
                                            \div stream.fetch_size
           /\ stream.pc = "exhausted"
                => /\ Len(stream.out) = stream.total
                   /\ stream.fetches = ((stream.total + stream.fetch_size - 1)
                                            \div stream.fetch_size) + 1

\* a sequence of find_objects over three rows was read to its end in
\* batches of two: a full batch, a short one and the empty one
C30_Witness ==
    /\ stream.pc = "exhausted"
    /\ stream.caller = "find_objects"
    /\ stream.total = 3
    /\ stream.fetch_size = 2
    /\ stream.fetches = 3
    /\ stream.out = <<1, 2, 3>>

-----------------------------------------------------------------------------
(* ormdantic/schema/base.py: the extraction paths of a stored field.  A    *)
(* path segment is the sequence of the names its dots separate: '..' is    *)
(* Ascend, '$' is <<"$">>, '$.name' is <<"$", "name">>.                    *)

Root == <<"$">>

\* the segments a _stored_fields definition is written with: the markers,
\* paths from the root, a bare name, and a name that follows '$' without a
\* dot
Segments ==
    {Ascend, Root, <<"$", "name">>, <<"$", "codes[*]">>,
     <<"order_name">>, <<"$name">>}

\* p.startswith('$.')
StartsWithRootDot(p) == Len(p) >= 2 /\ p[1] = "$"

\* _validate_json_paths: TRUE when it raises
_validate_json_paths(paths) ==
    \E i \in 1..Len(paths) :
        ~(paths[i] = Ascend \/ StartsWithRootDot(paths[i]) \/ paths[i] = Root)

\* the body of the loop of get_stored_fields for one field: the validation,
\* then the adjustment of a collection type, whose test reads paths[-1] and
\* paths[0]
StoredField(paths, is_collection_type) ==
    IF _validate_json_paths(paths)
    THEN [outcome |-> "RuntimeError", paths |-> <<>>]
    ELSE IF ~is_collection_type
         THEN [outcome |-> "ok", paths |-> paths]
         ELSE IF paths = <<>>
              THEN [outcome |-> "IndexError", paths |-> <<>>]
              ELSE IF paths[Len(paths)] # Root /\ paths[1] # Ascend
                   THEN [outcome |-> "ok", paths |-> Append(paths, Root)]
                   ELSE [outcome |-> "ok", paths |-> paths]

\* a class is declared with the paths of one stored field
Declare(paths, is_collection_type) ==
    /\ build.pc = "idle"
    /\ build' = [pc |-> "declared", paths |-> paths,
                 is_collection_type |-> is_collection_type]
    /\ UNCHANGED <<container_of, storeVars, orderVars, heap, call, stream>>

\* get_stored_fields(type_) of the declared class returns or raises
GetStoredFields ==
    /\ build.pc = "declared"
    /\ build' = [pc |-> "built", paths |-> build.paths,
                 is_collection_type |-> build.is_collection_type,
                 outcome |-> StoredField(build.paths,
                                         build.is_collection_type).outcome,
                 stored |-> StoredField(build.paths,
                                        build.is_collection_type).paths]
    /\ UNCHANGED <<container_of, storeVars, orderVars, heap, call, stream>>

InitPaths ==
    /\ container_of = StorageSchema
    /\ StoreIdle
    /\ OrderIdle
    /\ heap = <<>>
    /\ call = Idle
    /\ stream = Idle
    /\ build = Idle

NextPaths ==
    \/ \E paths \in SeqUpTo(Segments, MaxPath) :
        \E is_collection_type \in BOOLEAN :
            Declare(paths, is_collection_type)
    \/ GetStoredFields

SpecPaths == InitPaths /\ [][NextPaths]_vars

\* a path list is structurally valid: it is not empty, each segment is the
\* ascend marker or is root-anchored, and an ascend marker is followed by
\* exactly one more segment
WellFormed(paths) ==
    /\ paths # <<>>
    /\ \A i \in 1..Len(paths) :
        /\ paths[i] = Ascend \/ paths[i] = Root \/ StartsWithRootDot(paths[i])
        /\ paths[i] = Ascend => Len(paths) = i + 1

\* C20: get_stored_fields raises for every path list that is structurally
\* invalid: an empty list, a list with a segment that is neither the ascend
\* marker nor root-anchored, and a list whose ascend marker is not followed
\* by exactly one more segment.
C20_InvalidPathsRejected ==
    (build.pc = "built" /\ ~WellFormed(build.paths))
        => build.outcome # "ok"

-----------------------------------------------------------------------------
(* The names of the relations of a layout.  A layout declares types by     *)
(* their class names; a type is a root or a part and has array fields.     *)

\* class names and array field names a schema author can write
TypeNames == {"Target", "Target_codes", "Part"}

ArrayFieldNames == {"codes", "pbase"}

\* a layout: the declared class names, which of them are parts, and the
\* array fields of each
Layouts ==
    UNION {[declared -> [is_part : BOOLEAN, arrays : SUBSET ArrayFieldNames]] :
            declared \in (SUBSET TypeNames) \ {{}}}

\* the physical relations of a layout: the primary table of a root type,
\* the base table and the view of a part type, one side table per array
\* field
RelationsOf(layout) ==
    {[type_ |-> t, role |-> "table", suffix |-> ""] :
        t \in {u \in DOMAIN layout : ~layout[u].is_part}}
    \cup {[type_ |-> t, role |-> "base", suffix |-> "pbase"] :
        t \in {u \in DOMAIN layout : layout[u].is_part}}
    \cup {[type_ |-> t, role |-> "view", suffix |-> ""] :
        t \in {u \in DOMAIN layout : layout[u].is_part}}
    \cup UNION {{[type_ |-> t, role |-> "side", suffix |-> f] :
                    f \in layout[t].arrays} : t \in DOMAIN layout}

\* the classes of a layout are declared
DeclareLayout(layout) ==
    /\ build.pc = "idle"
    /\ build' = [pc |-> "layout", layout |-> layout]
    /\ UNCHANGED <<container_of, storeVars, orderVars, heap, call, stream>>

\* get_table_name is applied to every relation of the layout
NameRelations ==
    /\ build.pc = "layout"
    /\ build' = [pc |-> "named", layout |-> build.layout,
                 names |-> [r \in RelationsOf(build.layout) |->
                                get_table_name(r.type_, r.suffix)]]
    /\ UNCHANGED <<container_of, storeVars, orderVars, heap, call, stream>>

InitNames ==
    /\ container_of = StorageSchema
    /\ StoreIdle
    /\ OrderIdle
    /\ OthersIdle

NextNames ==
    \/ \E layout \in Layouts : DeclareLayout(layout)
    \/ NameRelations

SpecNames == InitNames /\ [][NextNames]_vars

\* C21: the name of a relation is the prefix and the class name, followed
\* by an underscore and the suffix when there is one, and two different
\* relations of a layout never get the same name.
C21_NamesCollisionFree ==
    build.pc = "named"
        => /\ \A r \in DOMAIN build.names :
                build.names[r] = "md_" \o r.type_
                    \o (IF r.suffix = "" THEN "" ELSE "_" \o r.suffix)
           /\ \A r1, r2 \in DOMAIN build.names :
                r1 # r2 => build.names[r1] # build.names[r2]

-----------------------------------------------------------------------------
(* ormdantic/schema/base.py: the stored fields of a class with base        *)
(* classes.  A hierarchy gives each class its base classes and, when the   *)
(* class body assigns _stored_fields, the names that dictionary defines.   *)

PersistentModelClass == "PersistentModel"

\* the classes below PersistentModel, in the order of their class statements
UserClasses == <<"K1", "K2", "K3", "K4">>

StoredNames == {"order", "name"}

\* the marker of a class statement Python refuses: its bases have no
\* consistent method resolution order
Inconsistent == "TypeError"

\* the C3 merge of the linearisations of the bases and the list of bases
\* the head is taken off every list it leads
RECURSIVE WithoutHead(_, _)
WithoutHead(seqs, head) ==
    IF seqs = <<>> THEN <<>>
    ELSE << IF Head(seqs) # <<>> /\ Head(Head(seqs)) = head
            THEN Tail(Head(seqs)) ELSE Head(seqs) >>
         \o WithoutHead(Tail(seqs), head)

RECURSIVE C3Merge(_)
C3Merge(seqs) ==
    LET live == {k \in 1..Len(seqs) : seqs[k] # <<>>}
        good == {i \in live :
                    \A j \in live : Head(seqs[i]) \notin Range(Tail(seqs[j]))}
        first == CHOOSE i \in good : \A l \in good : i <= l
    IN  IF live = {} THEN <<>>
        ELSE IF good = {} THEN <<Inconsistent>>
        ELSE <<Head(seqs[first])>>
                \o C3Merge(WithoutHead(seqs, Head(seqs[first])))

\* inspect.getmro(type_), from PersistentModel down: the class, then the
\* merge of the orders of its bases and of the list of its bases
RECURSIVE getmro(_, _)
getmro(bases, type_) ==
    IF type_ = PersistentModelClass THEN <<type_>>
    ELSE <<type_>> \o C3Merge([i \in 1..Len(bases[type_]) |->
                                  getmro(bases, bases[type_][i])]
                              \o <<bases[type_]>>)

\* the lists of bases a class statement can name: PersistentModel alone, or
\* one or two different classes stated before
BasesOf(declared) ==
    {<<PersistentModelClass>>}
    \cup {b \in UNION {[1..n -> declared] : n \in 1..MaxBases} :
            \A i, j \in 1..Len(b) : i # j => b[i] # b[j]}

\* what the body of a class says about _stored_fields: nothing, or a
\* dictionary that defines a name; PersistentModel assigns {}
OwnDefinitions ==
    {[assigned |-> FALSE, names |-> {}]}
    \cup {[assigned |-> TRUE, names |-> {n}] : n \in StoredNames}

OwnOf(own, class) ==
    IF class = PersistentModelClass THEN [assigned |-> TRUE, names |-> {}]
    ELSE own[class]

\* base._stored_fields: the attribute of the first class of the order of
\* base whose body assigns it; each name is defined as that class wrote it
StoredFieldsAttr(bases, own, base) ==
    LET mro == getmro(bases, base)
        at == CHOOSE i \in 1..Len(mro) :
                /\ OwnOf(own, mro[i]).assigned
                /\ \A j \in 1..(i - 1) : ~OwnOf(own, mro[j]).assigned
    IN  [f \in OwnOf(own, mro[at]).names |-> [by |-> "explicit", of |-> mro[at]]]

\* stored_fields.update(fields)
DictUpdate(stored_fields, fields) ==
    [f \in DOMAIN stored_fields \cup DOMAIN fields |->
        IF f \in DOMAIN fields THEN fields[f] ELSE stored_fields[f]]

\* for fields in reversed([base._stored_fields for base in getmro(type_)]):
\* the attributes of the classes of the order from its position n down to
\* its first one are applied, the first one last
RECURSIVE UpdateReversed(_, _, _, _, _)
UpdateReversed(stored_fields, bases, own, mro, n) ==
    IF n = 0 THEN stored_fields
    ELSE UpdateReversed(
            DictUpdate(stored_fields, StoredFieldsAttr(bases, own, mro[n])),
            bases, own, mro, n - 1)

\* get_stored_fields(type_) up to the merge: the definitions derived from
\* the annotated stored fields of the class, then the update by the
\* _stored_fields of each class of the order
MergedStoredFields(bases, own, annotated, type_) ==
    UpdateReversed([f \in annotated |-> [by |-> "annotation", of |-> type_]],
                   bases, own, getmro(bases, type_),
                   Len(getmro(bases, type_)))

\* the function f with one more argument
Extended(f, x, y) == [z \in DOMAIN f \cup {x} |-> IF z = x THEN y ELSE f[z]]

\* class K(*bases_): the next class is stated; Python raises TypeError when
\* its bases have no consistent order, and the class does not exist
ClassStatement(bases_, own_) ==
    /\ build.pc \in {"idle", "classes"}
    /\ Len(build.classes) < Len(UserClasses)
    /\ bases_ \in BasesOf(Range(build.classes))
    /\ Inconsistent \notin
            Range(getmro(Extended(build.bases,
                                  UserClasses[Len(build.classes) + 1], bases_),
                         UserClasses[Len(build.classes) + 1]))
    /\ build' = [pc |-> "classes",
                 classes |-> Append(build.classes,
                                    UserClasses[Len(build.classes) + 1]),
                 bases |-> Extended(build.bases,
                                    UserClasses[Len(build.classes) + 1], bases_),
                 own |-> Extended(build.own,
                                  UserClasses[Len(build.classes) + 1], own_)]
    /\ UNCHANGED <<container_of, storeVars, orderVars, heap, call, stream>>

\* get_stored_fields(type_) of the class stated last, whose annotations
\* give it the stored fields `annotated`
MergeStoredFields(annotated) ==
    /\ build.pc = "classes"
    /\ build' = [pc |-> "merged", classes |-> build.classes,
                 bases |-> build.bases, own |-> build.own,
                 annotated |-> annotated,
                 type_ |-> build.classes[Len(build.classes)],
                 mro |-> getmro(build.bases, build.classes[Len(build.classes)]),
                 stored_fields |->
                    MergedStoredFields(build.bases, build.own, annotated,
                                       build.classes[Len(build.classes)])]
    /\ UNCHANGED <<container_of, storeVars, orderVars, heap, call, stream>>

InitMro ==
    /\ container_of = StorageSchema
    /\ StoreIdle
    /\ OrderIdle
    /\ heap = <<>>
    /\ call = Idle
    /\ stream = Idle
    /\ build = [pc |-> "idle", classes |-> <<>>, bases |-> <<>>, own |-> <<>>]

NextMro ==
    \/ \E bases_ \in BasesOf(Range(UserClasses)) : \E own_ \in OwnDefinitions :
            ClassStatement(bases_, own_)
    \/ \E annotated \in SUBSET StoredNames : MergeStoredFields(annotated)

SpecMro == InitMro /\ [][NextMro]_vars

\* the positions of the order whose class defines the name in the
\* _stored_fields its own body assigns
Definers(f) ==
    {i \in 1..Len(build.mro) : f \in OwnOf(build.own, build.mro[i]).names}

\* C25: a name defined in the _stored_fields of several classes of the
\* order of a type gets the definition of the first of them in the order;
\* a definition in _stored_fields replaces the one derived from an
\* annotation; a name only an annotation defines keeps that definition, and
\* no other name is in the result.
C25_FirstInMroWins ==
    build.pc = "merged"
        => \A f \in StoredNames :
            IF Definers(f) # {}
            THEN /\ f \in DOMAIN build.stored_fields
                 /\ build.stored_fields[f].by = "explicit"
                 /\ build.stored_fields[f].of \in
                        {build.mro[i] : i \in Definers(f)}
                 /\ \A i \in Definers(f) :
                        build.stored_fields[f].of = build.mro[i]
                            => \A j \in Definers(f) : i <= j
            ELSE IF f \in build.annotated
                 THEN /\ f \in DOMAIN build.stored_fields
                      /\ build.stored_fields[f].by = "annotation"
                 ELSE f \notin DOMAIN build.stored_fields

-----------------------------------------------------------------------------
(* ormdantic/database/queries.py: the namespaces of a read and the keys of *)
(* its joins, over the classes of tests/db/test_queries.py.  A namespace   *)
(* is the sequence of the names its dots separate; '' is <<>>.             *)

QueryTypes == {"StartModel", "ReferencedByCode", "ReferencedById",
               "ReferencedByName"}

Unresolved == "Unresolved"

\* a field that is no reference
Plain == [ref |-> FALSE, target |-> Unresolved, target_field |-> ""]

\* a field of a class derived from StringReference[target], with its
\* _target_field
Reference(target, target_field) ==
    [ref |-> TRUE, target |-> target, target_field |-> target_field]

FieldsOfType(type_) ==
    CASE type_ = "StartModel" ->
            [code |-> Reference("ReferencedByCode", "code"),
             id |-> Reference("ReferencedById", "id"),
             name |-> Plain]
      [] type_ = "ReferencedByCode" ->
            [code |-> Plain, name |-> Reference("ReferencedByName", "name_ref")]
      [] type_ = "ReferencedById" -> [id |-> Plain]
      [] type_ = "ReferencedByName" -> [name_ref |-> Plain]

\* the names a namespace is made of, in alphabetical order
NamespaceSegments == <<"code", "id", "name", "start">>

Namespaces ==
    UNION {[1..k -> Range(NamespaceSegments)] : k \in 1..MaxDepth}

\* the explicit `joined` arguments: none, the one of test_build_join, and
\* the pairings test_find_join_keys passes
JoinedArguments ==
    {[ns \in {} |-> "StartModel"],
     [ns \in {<<"start">>} |-> "StartModel"],
     [ns \in {<<"name">>} |-> "ReferencedByName"],
     [ns \in {<<"id">>} |-> "StartModel"]}

ParentNamespace(ns) == SubSeq(ns, 1, Len(ns) - 1)

\* a namespace and every namespace on the way to it from the root
WithParents(nss) == UNION {{SubSeq(ns, 1, k) : k \in 0..Len(ns)} : ns \in nss}

\* the namespaces of a read: the root, the requested and the joined ones,
\* and every namespace on the way to them
AllNamespaces(joined, namespaces) ==
    {<<>>} \cup WithParents(namespaces) \cup WithParents(DOMAIN joined)

\* the order of the dotted names as strings, segment by segment
RECURSIVE NamespaceBefore(_, _)
NamespaceBefore(a, b) ==
    IF a = <<>> THEN b # <<>>
    ELSE IF b = <<>> THEN FALSE
    ELSE IF Head(a) = Head(b) THEN NamespaceBefore(Tail(a), Tail(b))
    ELSE \E i, j \in 1..Len(NamespaceSegments) :
            /\ NamespaceSegments[i] = Head(a)
            /\ NamespaceSegments[j] = Head(b)
            /\ i < j

\* the namespaces with the longest names first
RECURSIVE LongestFirst(_)
LongestFirst(nss) ==
    IF nss = {} THEN <<>>
    ELSE <<CHOOSE ns \in nss : \A o \in nss \ {ns} : NamespaceBefore(o, ns)>>
         \o LongestFirst(nss \ {CHOOSE ns \in nss :
                            \A o \in nss \ {ns} : NamespaceBefore(o, ns)})

RECURSIVE SortedNamespaces(_)
SortedNamespaces(nss) ==
    IF nss = {} THEN <<>>
    ELSE <<CHOOSE ns \in nss : \A o \in nss \ {ns} : NamespaceBefore(ns, o)>>
         \o SortedNamespaces(nss \ {CHOOSE ns \in nss :
                                \A o \in nss \ {ns} : NamespaceBefore(ns, o)})

\* the type a namespace is bound to: the queried type for the root, the
\* type `joined` gives it, or the target of the reference field its last
\* name is in the type of its parent; none when that field is no reference
RECURSIVE TypeOfNamespace(_, _, _)
TypeOfNamespace(type_, joined, ns) ==
    IF ns = <<>> THEN type_
    ELSE IF ns \in DOMAIN joined THEN joined[ns]
    ELSE IF TypeOfNamespace(type_, joined, ParentNamespace(ns)) = Unresolved
         THEN Unresolved
    ELSE IF ns[Len(ns)] \in DOMAIN FieldsOfType(
                TypeOfNamespace(type_, joined, ParentNamespace(ns)))
         THEN FieldsOfType(TypeOfNamespace(type_, joined,
                    ParentNamespace(ns)))[ns[Len(ns)]].target
         ELSE Unresolved

\* _build_namespace_types(type_, joined, namespaces): the pairs of every
\* namespace of the read, parents first; it raises at a namespace that has
\* no type
_build_namespace_types(type_, joined, namespaces) ==
    IF \E ns \in AllNamespaces(joined, namespaces) :
            TypeOfNamespace(type_, joined, ns) = Unresolved
    THEN [outcome |-> "RuntimeError", pairs |-> <<>>]
    ELSE [outcome |-> "ok",
          pairs |-> [i \in 1..Cardinality(AllNamespaces(joined, namespaces)) |->
            [ns |-> SortedNamespaces(AllNamespaces(joined, namespaces))[i],
             type_ |-> TypeOfNamespace(type_, joined,
                SortedNamespaces(AllNamespaces(joined, namespaces))[i])]]]

NoKey == <<>>

\* a non-reference field of the joining type is passed over and the
\* reference is looked for in the joined type
JoinKeyEitherWay(from, field, to) ==
    IF field \in DOMAIN FieldsOfType(from)
        /\ FieldsOfType(from)[field].ref /\ FieldsOfType(from)[field].target = to
    THEN <<field, FieldsOfType(from)[field].target_field>>
    ELSE IF \E g \in DOMAIN FieldsOfType(to) :
                FieldsOfType(to)[g].ref /\ FieldsOfType(to)[g].target = from
    THEN <<FieldsOfType(to)[CHOOSE g \in DOMAIN FieldsOfType(to) :
                FieldsOfType(to)[g].ref
                    /\ FieldsOfType(to)[g].target = from].target_field,
           CHOOSE g \in DOMAIN FieldsOfType(to) :
                FieldsOfType(to)[g].ref /\ FieldsOfType(to)[g].target = from>>
    ELSE NoKey

\* the key pair of the join of `to` under the namespace whose last name is
\* `field`: the reference field of `from` and its target field; for a name
\* that is no field of `from`, the target field and the field of a
\* reference `to` holds to `from`; none otherwise
JoinKey(from, field, to) ==
    IF field \in DOMAIN FieldsOfType(from)
    THEN IF FieldsOfType(from)[field].ref /\ FieldsOfType(from)[field].target = to
         THEN <<field, FieldsOfType(from)[field].target_field>>
         ELSE NoKey
    ELSE IF \E g \in DOMAIN FieldsOfType(to) :
                FieldsOfType(to)[g].ref /\ FieldsOfType(to)[g].target = from
    THEN <<FieldsOfType(to)[CHOOSE g \in DOMAIN FieldsOfType(to) :
                FieldsOfType(to)[g].ref
                    /\ FieldsOfType(to)[g].target = from].target_field,
           CHOOSE g \in DOMAIN FieldsOfType(to) :
                FieldsOfType(to)[g].ref /\ FieldsOfType(to)[g].target = from>>
    ELSE NoKey

\* the type the pairs bind a namespace to
TypeIn(pairs, ns) ==
    pairs[CHOOSE i \in 1..Len(pairs) : pairs[i].ns = ns].type_

\* _find_join_keys(pairs): (from type, to type) -> key pair, for every
\* namespace but the root; RuntimeError when a join has no key
_find_join_keys(pairs) ==
    IF \E i \in 1..Len(pairs) :
            /\ pairs[i].ns # <<>>
            /\ JoinKey(TypeIn(pairs, ParentNamespace(pairs[i].ns)),
                       pairs[i].ns[Len(pairs[i].ns)], pairs[i].type_) = NoKey
    THEN [outcome |-> "RuntimeError", keys |-> {}]
    ELSE [outcome |-> "ok",
          keys |-> {[from |-> TypeIn(pairs, ParentNamespace(pairs[i].ns)),
                     to |-> pairs[i].type_,
                     key |-> JoinKey(TypeIn(pairs, ParentNamespace(pairs[i].ns)),
                                     pairs[i].ns[Len(pairs[i].ns)],
                                     pairs[i].type_)] :
                    i \in {k \in 1..Len(pairs) : pairs[k].ns # <<>>}}]

\* a read of type_ is asked for, with its explicit joins
StartQuery(type_, joined) ==
    /\ build.pc = "idle"
    /\ build' = [pc |-> "query", type_ |-> type_, joined |-> joined,
                 namespaces |-> {}]
    /\ UNCHANGED <<container_of, storeVars, orderVars, heap, call, stream>>

\* a field or a filter of the read names one more namespace
RequestNamespace(ns) ==
    /\ build.pc = "query"
    /\ Cardinality(build.namespaces) < MaxRequested
    /\ ns \notin build.namespaces
    /\ build' = [build EXCEPT !.namespaces = @ \cup {ns}]
    /\ UNCHANGED <<container_of, storeVars, orderVars, heap, call, stream>>

\* the statement is compiled: the namespaces are resolved, then the join
\* keys; the SQL text is produced when neither raised
Compiling(q, ns_types) ==
    [pc |-> "compiled", type_ |-> q.type_, joined |-> q.joined,
     namespaces |-> q.namespaces,
     ns_types |-> ns_types.pairs,
     join_keys |-> IF ns_types.outcome = "ok"
                   THEN _find_join_keys(ns_types.pairs).keys ELSE {},
     outcome |-> IF ns_types.outcome = "ok"
                 THEN _find_join_keys(ns_types.pairs).outcome
                 ELSE ns_types.outcome,
     sql |-> ns_types.outcome = "ok"
                /\ _find_join_keys(ns_types.pairs).outcome = "ok"]

CompileQuery ==
    /\ build.pc = "query"
    /\ \E ns_types \in {_build_namespace_types(build.type_, build.joined,
                                                build.namespaces)} :
            build' = Compiling(build, ns_types)
    /\ UNCHANGED <<container_of, storeVars, orderVars, heap, call, stream>>

InitJoin ==
    /\ container_of = StorageSchema
    /\ StoreIdle
    /\ OrderIdle
    /\ OthersIdle

NextJoin ==
    \/ \E type_ \in {"StartModel", "ReferencedById"} :
        \E joined \in JoinedArguments : StartQuery(type_, joined)
    \/ \E ns \in Namespaces : RequestNamespace(ns)
    \/ CompileQuery

SpecJoin == InitJoin /\ [][NextJoin]_vars

\* C22: whenever a namespace of a read, requested through a dotted field or
\* given in the joined namespaces, passes through a field of the type it
\* starts from that is no reference, compiling the read raises and produces
\* neither join keys nor SQL.
C22_NonReferenceTraversalFails ==
    (/\ build.pc = "compiled"
     /\ \E ns \in AllNamespaces(build.joined, build.namespaces) \ {<<>>} :
            /\ TypeOfNamespace(build.type_, build.joined, ParentNamespace(ns))
                    # Unresolved
            /\ ns[Len(ns)] \in DOMAIN FieldsOfType(TypeOfNamespace(
                    build.type_, build.joined, ParentNamespace(ns)))
            /\ ~FieldsOfType(TypeOfNamespace(build.type_, build.joined,
                    ParentNamespace(ns)))[ns[Len(ns)]].ref)
        => /\ build.outcome = "RuntimeError"
           /\ ~build.sql
           /\ build.join_keys = {}

\* a read of StartModel asked for a field under `name`, a plain field, and
\* a read joined ReferencedByName as `name`: both raised
C22_Witness ==
    /\ build.pc = "compiled"
    /\ build.type_ = "StartModel"
    /\ \/ build.namespaces = {<<"name">>} /\ DOMAIN build.joined = {}
       \/ build.namespaces = {} /\ DOMAIN build.joined = {<<"name">>}
    /\ build.outcome = "RuntimeError"
    /\ ~build.sql

\* the pairs start with the root, hold each namespace on the way to a
\* requested or joined namespace once and no other, parents first
PairsOrderedAndComplete ==
    /\ build.ns_types[1] = [ns |-> <<>>, type_ |-> build.type_]
    /\ \A ns \in build.namespaces \cup DOMAIN build.joined :
            \A k \in 0..Len(ns) :
                \E i \in 1..Len(build.ns_types) :
                    build.ns_types[i].ns = SubSeq(ns, 1, k)
    /\ \A i \in 1..Len(build.ns_types) :
            \/ build.ns_types[i].ns = <<>>
            \/ \E ns \in build.namespaces \cup DOMAIN build.joined :
                    \E k \in 1..Len(ns) :
                        build.ns_types[i].ns = SubSeq(ns, 1, k)
    /\ \A i, j \in 1..Len(build.ns_types) :
            i # j => build.ns_types[i].ns # build.ns_types[j].ns
    /\ \A i \in 2..Len(build.ns_types) :
            \E j \in 1..(i - 1) :
                build.ns_types[j].ns = ParentNamespace(build.ns_types[i].ns)

\* the i-th pair is bound to the target of the reference field its last
\* name is in the type of its parent
BoundByReference(i) ==
    \E j \in 1..Len(build.ns_types) :
        /\ build.ns_types[j].ns = ParentNamespace(build.ns_types[i].ns)
        /\ build.ns_types[i].ns[Len(build.ns_types[i].ns)]
                \in DOMAIN FieldsOfType(build.ns_types[j].type_)
        /\ FieldsOfType(build.ns_types[j].type_)[
                build.ns_types[i].ns[Len(build.ns_types[i].ns)]]
            = Reference(build.ns_types[i].type_,
                        FieldsOfType(build.ns_types[j].type_)[
                            build.ns_types[i].ns[Len(build.ns_types[i].ns)]
                        ].target_field)

\* C26, as stated: the pairs are ordered and complete, and every pair but
\* the root is bound to the target type of the reference field it passes
\* through.
C26_EveryPairBoundByReference ==
    (build.pc = "compiled" /\ build.outcome = "ok")
        => /\ PairsOrderedAndComplete
           /\ \A i \in 2..Len(build.ns_types) : BoundByReference(i)

\* C26: for the namespaces of a read that compiles, the pairs start with
\* the root, hold each namespace on the way to a requested or joined
\* namespace exactly once, each after its parent; a namespace the `joined`
\* argument names is bound to the type given there, any other to the target
\* type of the reference field it passes through.
C26_NamespacesResolvedInOrder ==
    (build.pc = "compiled" /\ build.outcome = "ok")
        => /\ PairsOrderedAndComplete
           /\ \A i \in 2..Len(build.ns_types) :
                IF build.ns_types[i].ns \in DOMAIN build.joined
                THEN build.ns_types[i].type_ = build.joined[build.ns_types[i].ns]
                ELSE BoundByReference(i)

\* the read of test_build_join with an explicit join: ReferencedById joined
\* to StartModel as 'start', asked for 'start.code.name'
C26_Witness ==
    /\ build.pc = "compiled"
    /\ build.outcome = "ok"
    /\ build.joined = [ns \in {<<"start">>} |-> "StartModel"]
    /\    /\ build.type_ = "ReferencedById"
          /\ build.namespaces = {<<"start", "code", "name">>}
          /\ build.ns_types =
                <<[ns |-> <<>>, type_ |-> "ReferencedById"],
                  [ns |-> <<"start">>, type_ |-> "StartModel"],
                  [ns |-> <<"start", "code">>, type_ |-> "ReferencedByCode"],
                  [ns |-> <<"start", "code", "name">>,
                   type_ |-> "ReferencedByName"]>>
          /\ build.join_keys =
                {[from |-> "ReferencedById", to |-> "StartModel",
                  key |-> <<"id", "id">>],
                 [from |-> "StartModel", to |-> "ReferencedByCode",
                  key |-> <<"code", "code">>],
                 [from |-> "ReferencedByCode", to |-> "ReferencedByName",
                  key |-> <<"name", "name_ref">>]}

-----------------------------------------------------------------------------
(* A paged read: the statement get_query_and_args_for_reading builds for   *)
(* order_by = ('order desc', 'name') and a limit, as the backend runs it.  *)
(* A row of md_MyModel is [order, name]; its __row_id is its position.     *)

OrderValues == 1..2

\* the tables of md_MyModel
PagedTables == SeqUpTo([order : OrderValues, name : OrderValues], MaxRows)

\* LIMIT 100000000000, for a read without limit: more rows than any table
\* holds
NoLimit == MaxRows + 1

\* the fields a read projects: `order` is a column of the restricted base,
\* `__json` is not and is read from md_MyModel AS _MAIN, joined on __row_id
ProjectedFields == {"order", "__json"}

\* row a comes before row b under ORDER BY `order` desc, `name`
OrderedBefore(a, b) ==
    \/ a.order > b.order
    \/ a.order = b.order /\ a.name < b.name

\* the orders ORDER BY `order` desc, `name` can give the row ids of a table:
\* rows with equal keys come in any order
ForOrdering(rows) ==
    {p \in [1..Len(rows) -> 1..Len(rows)] :
        /\ \A i, j \in 1..Len(rows) : i # j => p[i] # p[j]
        /\ \A i, j \in 1..Len(rows) :
                i < j => ~OrderedBefore(rows[p[j]], rows[p[i]])}

\* LIMIT limit
Limited(p, limit) == SubSeq(p, 1, Min(limit, Len(p)))

\* the row ids in ascending order
RECURSIVE Ascending(_)
Ascending(ids) ==
    IF ids = {} THEN <<>>
    ELSE <<CHOOSE i \in ids : \A j \in ids : i <= j>>
         \o Ascending(ids \ {CHOOSE i \in ids : \A j \in ids : i <= j})

\* the outer SELECT, which has no ORDER BY: without a join the rows of
\* _BASE as they stand; with the join to _MAIN the rows in the order of the
\* table the backend drives the join from
OuterSelect(base, field, driving) ==
    IF field = "__json" /\ driving = "_MAIN"
    THEN Ascending(Range(base))
    ELSE base

\* query_records(pool, MyModel, (), fields=(field,),
\*               order_by=('order desc', 'name'), limit=limit) is called
\* over a table
QueryPage(rows, field, limit) ==
    /\ stream.pc = "idle"
    /\ stream' = [pc |-> "paging", table |-> rows, field |-> field,
                  limit |-> limit]
    /\ UNCHANGED <<container_of, storeVars, orderVars, heap, call, build>>

\* the statement is executed and its rows are delivered
DeliverPage(p, driving) ==
    /\ stream.pc = "paging"
    /\ p \in ForOrdering(stream.table)
    /\ driving = "_MAIN" => stream.field = "__json"
    /\ stream' = [pc |-> "delivered", table |-> stream.table,
                  field |-> stream.field, limit |-> stream.limit,
                  driving |-> driving,
                  base |-> Limited(p, stream.limit),
                  out |-> OuterSelect(Limited(p, stream.limit), stream.field,
                                      driving)]
    /\ UNCHANGED <<container_of, storeVars, orderVars, heap, call, build>>

InitPage ==
    /\ container_of = StorageSchema
    /\ StoreIdle
    /\ OrderIdle
    /\ OthersIdle

NextPage ==
    \/ \E rows \in PagedTables : \E field \in ProjectedFields :
        \E limit \in (1..MaxRows) \cup {NoLimit} :
            QueryPage(rows, field, limit)
    \/ \E p \in UNION {[1..n -> 1..n] : n \in 0..MaxRows} :
        \E driving \in {"_BASE", "_MAIN"} : DeliverPage(p, driving)

SpecPage == InitPage /\ [][NextPage]_vars

\* C23: a read ordered by ('order desc', 'name') with limit K delivers at
\* most K rows, and delivers them sorted by order descending, then name
\* ascending, whichever field it projects.
C23_DeliveredSorted ==
    stream.pc = "delivered"
        => /\ Len(stream.out) <= stream.limit
           /\ \A i, j \in 1..Len(stream.out) :
                i < j => ~OrderedBefore(stream.table[stream.out[j]],
                                        stream.table[stream.out[i]])

====
